---- MODULE Spec2Model ----
(***************************************************************************)
(* Fleet audit engine: violation deduplication / consolidation             *)
(* (src/logic/violation_deduplicator.py), the overlap analysis and the     *)
(* audit orchestration (src/logic/matcher.py), the MPG classifier          *)
(* (src/logic/mpg_analyzer.py) and the tiered fuel-theft detector          *)
(* (src/logic/enhanced_fuel_detector.py).                                  *)
(*                                                                         *)
(* Conventions.  A timestamp counts ticks (TicksPerHour to the hour) since *)
(* a Monday 00:00; NaT is the timestamp pandas gives a null date.          *)
(* Confidences are in thousandths (0.95 is 950).  A float that pandas may  *)
(* leave undefined is a record: Num(n), NaN, or Missing (the key is not    *)
(* in the dict at all).                                                    *)
(***************************************************************************)
EXTENDS Integers, Sequences, FiniteSets, TLC

VARIABLES
    violations,               \* deduplicate_violations: the list handed in
    consolidated_violations,  \* deduplicate_violations: the list returned
    dd_pc,                    \* "collect" while detectors report, then "done"
    financial_summary,        \* generate_financial_summary: its period argument
                              \* and the dict returned (called is FALSE before)
    related_pair,             \* _are_violations_related: <<v1, v2>> handed in
    related_result,           \* _are_violations_related: "none" before the
                              \* call, then what (v1, v2) and (v2, v1) returned
    gps_data,                 \* FleetAuditor.gps_data (NoTable for None)
    fuel_data,                \* FleetAuditor.fuel_data
    job_data,                 \* FleetAuditor.job_data
    date_ranges,              \* FleetAuditor.date_ranges
    overlap_analysis,         \* FleetAuditor.overlap_analysis
    self_violations,          \* FleetAuditor.violations
    ret,                      \* what the last call on the auditor returned
    last_audit,               \* the flags and the consolidated result of the
                              \* latest run_full_audit, while only load_data
                              \* of the same tables has been called since;
                              \* rerun: it repeated the audit before it
    au_pc,                    \* "new" after __init__, "loaded" after load_data
    fuel_df,                  \* detect_enhanced_fuel_theft: the table handed in
    fuel_result,              \* detect_enhanced_fuel_theft: the list returned
    fd_pc                     \* "ready" before the call, then "done"

dd_vars == <<violations, consolidated_violations, dd_pc, financial_summary, related_pair,
            related_result>>

au_vars == <<gps_data, fuel_data, job_data, date_ranges, overlap_analysis,
             self_violations, ret, last_audit, au_pc>>

fd_vars == <<fuel_df, fuel_result, fd_pc>>

vars == <<dd_vars, au_vars, fd_vars>>

-----------------------------------------------------------------------------
(* Floats as pandas/Python leave them in a violation dict.                 *)

Num(n) == [kind |-> "num", val |-> n]
NaN == [kind |-> "nan", val |-> 0]
Missing == [kind |-> "missing", val |-> 0]

\* dict.get(key, default): the default only when the key is not there.
DictGet(x, default) == IF x.kind = "missing" THEN Num(default) ELSE x

\* float addition: NaN is absorbing.
FloatAdd(a, b) == IF a.kind = "nan" \/ b.kind = "nan" THEN NaN ELSE Num(a.val + b.val)

\* unary minus.
FloatNeg(a) == IF a.kind = "nan" THEN NaN ELSE Num(0 - a.val)

\* a < b and a == b on floats: every comparison with NaN is False.
FloatLt(a, b) == a.kind = "num" /\ b.kind = "num" /\ a.val < b.val
FloatEq(a, b) == a.kind = "num" /\ b.kind = "num" /\ a.val = b.val

Min2(a, b) == IF a <= b THEN a ELSE b
Max2(a, b) == IF a >= b THEN a ELSE b

Reverse(s) == [k \in 1..Len(s) |-> s[Len(s) + 1 - k]]

\* the elements of a set of integers as an ascending sequence
RECURSIVE Ascending(_)
Ascending(S) ==
    IF S = {} THEN <<>>
    ELSE LET m == CHOOSE x \in S : \A y \in S : x <= y
         IN <<m>> \o Ascending(S \ {m})

-----------------------------------------------------------------------------
(* ViolationDeduplicator                                                   *)

NoLocation == "<null>"

\* self.related_violations
related_violations ==
    [fuel_theft_cluster |-> {"volume_excess", "obvious_rapid_refill", "price_excess",
                             "price_premium", "pattern_deviation", "daily_excess",
                             "estimated_volume_excess", "extreme_amount_deviation"},
     mpg_fraud_cluster |-> {"fuel_dumping_mpg", "odometer_fraud_mpg",
                            "excessive_consumption_mpg", "idle_refill_mpg"},
     idle_cluster |-> {"idle_abuse", "excessive_consumption_mpg"},
     timing_cluster |-> {"timing_anomaly", "frequency_anomaly"}]

\* the resolution of a timestamp: ticks per hour
TicksPerHour == 2

\* the timestamp h hours (and `ticks` ticks) after Monday 00:00
Hours(h) == h * TicksPerHour
HoursAnd(h, ticks) == h * TicksPerHour + ticks

\* pd.NaT: what pd.to_datetime gives a null timestamp
NaT == -1
IsNaT(t) == t = NaT

\* self.grouping_window_hours
grouping_window_hours == 2

\* str.strip(): trailing/leading blanks removed
Strip(s) ==
    CASE s = "Depot " -> "Depot"
      [] s = " Yard" -> "Yard"
      [] OTHER -> s

\* mutant of severity_score: the scores of medium and high exchanged
severity_score_swapped(severity) ==
    CASE severity = "low" -> 1
      [] severity = "medium" -> 3
      [] severity = "high" -> 2
      [] OTHER -> 0

\* _severity_score: scores.get(severity, 0)
severity_score(severity) ==
    CASE severity = "low" -> 1
      [] severity = "medium" -> 2
      [] severity = "high" -> 3
      [] OTHER -> 0

\* _are_violations_related(v1, v2).  With a NaT timestamp time_diff is NaN
\* and `time_diff > self.grouping_window_hours` is False.
are_violations_related(v1, v2) ==
    IF v1.vehicle_id # v2.vehicle_id THEN FALSE
    ELSE LET d == v1.timestamp - v2.timestamp
             time_diff == IF d < 0 THEN 0 - d ELSE d
         IN IF /\ ~IsNaT(v1.timestamp) /\ ~IsNaT(v2.timestamp)
               /\ time_diff > grouping_window_hours * TicksPerHour
            THEN FALSE
            ELSE IF \E c \in DOMAIN related_violations :
                        /\ v1.detection_method \in related_violations[c]
                        /\ v2.detection_method \in related_violations[c]
                 THEN TRUE
                 ELSE /\ v1.location # NoLocation
                      /\ v2.location # NoLocation
                      /\ Strip(v1.location) = Strip(v2.location)

\* pd.DataFrame(violations) followed by row.to_dict(): a column exists when
\* any dict has the key, and a dict without it reads NaN in that column.
\* `row` is the DataFrame index of the row; it identifies the raw violation.
ToFrame(vs) ==
    LET has_loss == \E k \in 1..Len(vs) : vs[k].estimated_loss.kind # "missing"
    IN [k \in 1..Len(vs) |->
          [row |-> k,
           vehicle_id |-> vs[k].vehicle_id,
           timestamp |-> vs[k].timestamp,
           detection_method |-> vs[k].detection_method,
           location |-> vs[k].location,
           severity |-> vs[k].severity,
           confidence |-> vs[k].confidence,
           estimated_loss |-> IF has_loss /\ vs[k].estimated_loss.kind = "missing"
                              THEN NaN
                              ELSE vs[k].estimated_loss]]

\* _group_violations_by_incident: the groups as lists of row indices.  Row i
\* opens a group unless already processed; the inner loop adds every row not
\* yet processed that is related to row i (the seed), in row order.
RECURSIVE GroupFrom(_, _, _)
GroupFrom(df, i, processed) ==
    IF i > Len(df) THEN <<>>
    ELSE IF i \in processed THEN GroupFrom(df, i + 1, processed)
    ELSE LET rel == {j \in 1..Len(df) :
                        /\ j \notin processed
                        /\ j # i
                        /\ are_violations_related(df[i], df[j])}
         IN <<(<<i>> \o Ascending(rel))>> \o GroupFrom(df, i + 1, processed \cup {i} \cup rel)

group_violations_by_incident(vs) == GroupFrom(ToFrame(vs), 1, {})

\* _consolidate_violation_group, multi-member branch: the loop's accumulators
RECURSIVE LossSum(_, _)
LossSum(group, k) ==
    IF k = 0 THEN Num(0)
    ELSE FloatAdd(LossSum(group, k - 1), DictGet(group[k].estimated_loss, 0))

\* max_confidence = max(max_confidence, violation.get('confidence', 0)), from 0
RECURSIVE MaxConfidence(_, _)
MaxConfidence(group, k) ==
    IF k = 0 THEN 0
    ELSE Max2(MaxConfidence(group, k - 1), group[k].confidence)

\* max_severity starts at 'low' and is replaced by a strictly higher score
RECURSIVE MaxSeverity(_, _)
MaxSeverity(group, k) ==
    IF k = 0 THEN "low"
    ELSE LET prev == MaxSeverity(group, k - 1)
         IN IF severity_score(group[k].severity) > severity_score(prev)
            THEN group[k].severity
            ELSE prev

\* detection_methods: first occurrences, in group order
RECURSIVE DetectionMethods(_, _)
DetectionMethods(group, k) ==
    IF k = 0 THEN <<>>
    ELSE LET prev == DetectionMethods(group, k - 1)
         IN IF \E q \in 1..Len(prev) : prev[q] = group[k].detection_method
            THEN prev
            ELSE Append(prev, group[k].detection_method)

confidence_boost == 100
confidence_cap == 990

\* mutant of boosted_confidence: the boost without the cap
boosted_confidence_uncapped(max_confidence) == max_confidence + confidence_boost

\* min(max_confidence + 0.1, 0.99)
boosted_confidence(max_confidence) == Min2(max_confidence + confidence_boost, confidence_cap)

\* _consolidate_violation_group(violation_group).  `members` keeps the group
\* itself (the code keeps it as evidence_details) so that an incident can be
\* compared with what was merged into it.
consolidate_violation_group(group) ==
    IF Len(group) = 1
    THEN [vehicle_id |-> group[1].vehicle_id,
          timestamp |-> group[1].timestamp,
          location |-> group[1].location,
          detection_method |-> group[1].detection_method,
          severity |-> group[1].severity,
          confidence |-> group[1].confidence,
          estimated_loss |-> group[1].estimated_loss,
          total_estimated_loss |-> DictGet(group[1].estimated_loss, 0),
          detection_methods |-> <<group[1].detection_method>>,
          evidence_count |-> 1,
          consolidated |-> FALSE,
          members |-> group]
    ELSE [vehicle_id |-> group[1].vehicle_id,
          timestamp |-> group[1].timestamp,
          location |-> group[1].location,
          detection_method |-> "multi_factor_analysis",
          severity |-> MaxSeverity(group, Len(group)),
          confidence |-> boosted_confidence(MaxConfidence(group, Len(group))),
          estimated_loss |-> group[1].estimated_loss,
          total_estimated_loss |-> LossSum(group, Len(group)),
          detection_methods |-> DetectionMethods(group, Len(group)),
          evidence_count |-> Len(group),
          consolidated |-> TRUE,
          members |-> group]

\* the sort key of deduplicate_violations:
\* (self._severity_score(x['severity']), -x.get('total_estimated_loss', 0))
SortKey(x) == <<severity_score(x.severity), FloatNeg(x.total_estimated_loss)>>

\* Python's tuple `<`: the first position where the items are not equal decides
KeyLT(a, b) ==
    IF a[1] # b[1] THEN a[1] < b[1]
    ELSE IF FloatEq(a[2], b[2]) THEN FALSE
    ELSE FloatLt(a[2], b[2])

ISLT(x, y) == KeyLT(SortKey(x), SortKey(y))

\* list.sort on a short list (fewer than 64 items): count_run finds the leading
\* run, a strictly descending run is reversed, and binarysort inserts the rest.
RECURSIVE RunEnd(_, _, _)
RunEnd(s, k, descending) ==
    IF k > Len(s) THEN k - 1
    ELSE IF ISLT(s[k], s[k - 1]) = descending THEN RunEnd(s, k + 1, descending)
    ELSE k - 1

RECURSIVE BinarySearch(_, _, _, _)
BinarySearch(s, pivot, l, r) ==
    IF l >= r THEN l
    ELSE LET p == l + ((r - l) \div 2)
         IN IF ISLT(pivot, s[p]) THEN BinarySearch(s, pivot, l, p)
            ELSE BinarySearch(s, pivot, p + 1, r)

RECURSIVE BinarySort(_, _)
BinarySort(s, start) ==
    IF start > Len(s) THEN s
    ELSE LET l == BinarySearch(s, s[start], 1, start)
             t == [k \in 1..Len(s) |->
                     IF k < l THEN s[k]
                     ELSE IF k = l THEN s[start]
                     ELSE IF k <= start THEN s[k - 1]
                     ELSE s[k]]
         IN BinarySort(t, start + 1)

ListSort(s) ==
    IF Len(s) < 2 THEN s
    ELSE LET descending == ISLT(s[2], s[1])
             n == RunEnd(s, 3, descending)
             run == IF descending
                    THEN [k \in 1..Len(s) |-> IF k <= n THEN s[n + 1 - k] ELSE s[k]]
                    ELSE s
         IN BinarySort(run, n + 1)

\* list.sort(key=..., reverse=True): reverse, stable ascending sort, reverse
SortReverse(s) == Reverse(ListSort(Reverse(s)))

\* deduplicate_violations(violations)
deduplicate_violations(vs) ==
    IF Len(vs) = 0 THEN <<>>
    ELSE LET df == ToFrame(vs)
             groups == group_violations_by_incident(vs)
             incidents == [g \in 1..Len(groups) |->
                             consolidate_violation_group(
                                 [m \in 1..Len(groups[g]) |-> df[groups[g][m]]])]
         IN SortReverse(incidents)

-----------------------------------------------------------------------------
(* generate_financial_summary.  An estimate is a float times a ratio of    *)
(* two integers, kept exact: [kind, num, den] is num / den.                *)

\* max(a, b) on floats: b when b > a, else a
FloatMax(a, b) == IF FloatLt(a, b) THEN b ELSE a

\* x * (days / time_period_days) if time_period_days > 0 else 0
extrapolate(x, days, time_period_days) ==
    IF time_period_days > 0
    THEN (IF x.kind = "nan"
          THEN [kind |-> "nan", num |-> 0, den |-> 1]
          ELSE [kind |-> "num", num |-> x.val * days, den |-> time_period_days])
    ELSE [kind |-> "num", num |-> 0, den |-> 1]

days_per_week == 7
days_per_month == 30

\* the keys of vehicle_losses in insertion order: the vehicles of the
\* incidents, each at its first occurrence
RECURSIVE VehicleKeys(_, _)
VehicleKeys(incidents, k) ==
    IF k = 0 THEN <<>>
    ELSE LET prev == VehicleKeys(incidents, k - 1)
         IN IF \E q \in 1..Len(prev) : prev[q] = incidents[k].vehicle_id
            THEN prev
            ELSE Append(prev, incidents[k].vehicle_id)

\* vehicle_losses[vehicle_id] after the loop over the first k incidents
RECURSIVE VehicleLosses(_, _, _)
VehicleLosses(incidents, vehicle_id, k) ==
    IF k = 0
    THEN [total_loss |-> Num(0), violation_count |-> 0, highest_single_incident |-> Num(0),
          violation_types |-> {}]
    ELSE LET prev == VehicleLosses(incidents, vehicle_id, k - 1)
             loss == DictGet(incidents[k].total_estimated_loss, 0)
         IN IF incidents[k].vehicle_id # vehicle_id THEN prev
            ELSE [total_loss |-> FloatAdd(prev.total_loss, loss),
                  violation_count |-> prev.violation_count + 1,
                  highest_single_incident |-> FloatMax(prev.highest_single_incident, loss),
                  violation_types |-> prev.violation_types \cup
                      {incidents[k].detection_methods[m] :
                          m \in 1..Len(incidents[k].detection_methods)}]

\* total_fleet_loss after the loop over the first k incidents
RECURSIVE FleetLoss(_, _)
FleetLoss(incidents, k) ==
    IF k = 0 THEN Num(0)
    ELSE FloatAdd(FleetLoss(incidents, k - 1), DictGet(incidents[k].total_estimated_loss, 0))

\* max(keys, key=...): the first key is kept until a later one has a key
\* that is greater
RECURSIVE MaxByLoss(_, _, _)
MaxByLoss(keys, total_loss, k) ==
    IF k = 1 THEN keys[1]
    ELSE LET best == MaxByLoss(keys, total_loss, k - 1)
         IN IF FloatLt(total_loss[best], total_loss[keys[k]]) THEN keys[k] ELSE best

\* generate_financial_summary(consolidated_violations, time_period_days)
generate_financial_summary(incidents, time_period_days) ==
    IF Len(incidents) = 0 THEN [empty |-> TRUE]
    ELSE LET keys == VehicleKeys(incidents, Len(incidents))
             flagged == {keys[q] : q \in 1..Len(keys)}
             vehicle_summaries ==
                 [vehicle_id \in flagged |->
                     LET data == VehicleLosses(incidents, vehicle_id, Len(incidents))
                     IN [total_loss |-> data.total_loss,
                         weekly_estimate |->
                             extrapolate(data.total_loss, days_per_week, time_period_days),
                         monthly_estimate |->
                             extrapolate(data.total_loss, days_per_month, time_period_days),
                         violation_count |-> data.violation_count,
                         highest_single_incident |-> data.highest_single_incident,
                         violation_methods |-> data.violation_types]]
             total_fleet_loss == FleetLoss(incidents, Len(incidents))
         IN [empty |-> FALSE,
             total_fleet_loss |-> total_fleet_loss,
             weekly_fleet_estimate |->
                 extrapolate(total_fleet_loss, days_per_week, time_period_days),
             monthly_fleet_estimate |->
                 extrapolate(total_fleet_loss, days_per_month, time_period_days),
             total_violations |-> Len(incidents),
             vehicles_flagged |-> Len(keys),
             vehicle_order |-> keys,
             vehicle_summaries |-> vehicle_summaries,
             worst_offender |->
                 MaxByLoss(keys, [v \in flagged |-> vehicle_summaries[v].total_loss], Len(keys))]

-----------------------------------------------------------------------------
(* The raw violations a detector can hand to the deduplicator.             *)

MaxViolations == 3

Vehicles == {"VAN-1", "TRUCK-2"}
ViolationTimes == {Hours(0), Hours(2), Hours(3)}

\* shapes of the dicts the detectors build: method, location, severity,
\* confidence, estimated_loss (only the MPG classifier sets estimated_loss)
RawKinds ==
    { [detection_method |-> "volume_excess", location |-> " Yard",
       severity |-> "high", confidence |-> 950, estimated_loss |-> Missing],
      [detection_method |-> "price_premium", location |-> "Depot",
       severity |-> "low", confidence |-> 500, estimated_loss |-> Missing],
      [detection_method |-> "excessive_consumption_mpg", location |-> "Depot ",
       severity |-> "medium", confidence |-> 750, estimated_loss |-> Num(10)],
      [detection_method |-> "fuel_dumping_mpg", location |-> NoLocation,
       severity |-> "high", confidence |-> 950, estimated_loss |-> Num(30)] }

RawViolations ==
    { [vehicle_id |-> v, timestamp |-> t,
       detection_method |-> k.detection_method, location |-> k.location,
       severity |-> k.severity, confidence |-> k.confidence,
       estimated_loss |-> k.estimated_loss] :
        v \in Vehicles, t \in ViolationTimes, k \in RawKinds }

\* generate_financial_summary has not been called
NoSummary == [called |-> FALSE, time_period_days |-> 0, value |-> [empty |-> TRUE]]

DedupInit ==
    /\ violations = <<>>
    /\ consolidated_violations = <<>>
    /\ financial_summary = NoSummary
    /\ related_pair = <<>>
    /\ related_result = "none"
    /\ dd_pc = "collect"

\* all_violations.extend(...): a detector reports one more raw violation
Report ==
    /\ dd_pc = "collect"
    /\ Len(violations) < MaxViolations
    /\ \E v \in RawViolations : violations' = Append(violations, v)
    /\ UNCHANGED <<consolidated_violations, dd_pc, financial_summary, related_pair,
                   related_result>>
    /\ UNCHANGED <<au_vars, fd_vars>>

\* a detector reports a raw violation of a record whose timestamp is NaT
UndatedViolations ==
    { [vehicle_id |-> v, timestamp |-> NaT,
       detection_method |-> k.detection_method, location |-> k.location,
       severity |-> k.severity, confidence |-> k.confidence,
       estimated_loss |-> k.estimated_loss] :
        v \in Vehicles, k \in RawKinds }

ReportUndated ==
    /\ dd_pc = "collect"
    /\ Len(violations) < MaxViolations
    /\ \E v \in UndatedViolations : violations' = Append(violations, v)
    /\ UNCHANGED <<consolidated_violations, dd_pc, financial_summary, related_pair,
                   related_result>>
    /\ UNCHANGED <<au_vars, fd_vars>>

\* consolidated_violations = deduplicator.deduplicate_violations(all_violations)
Deduplicate ==
    /\ dd_pc = "collect"
    /\ consolidated_violations' = deduplicate_violations(violations)
    /\ dd_pc' = "done"
    /\ UNCHANGED <<violations, financial_summary, related_pair, related_result>>
    /\ UNCHANGED <<au_vars, fd_vars>>

\* the time_period_days generate_financial_summary is called with
PeriodDays == {0, 3, 7}

\* financial_summary = deduplicator.generate_financial_summary(
\*     consolidated_violations, time_period_days=...)
GenerateFinancialSummary ==
    /\ dd_pc = "done"
    /\ \E time_period_days \in PeriodDays :
          financial_summary' =
              [called |-> TRUE,
               time_period_days |-> time_period_days,
               value |-> generate_financial_summary(consolidated_violations, time_period_days)]
    /\ dd_pc' = "summarised"
    /\ UNCHANGED <<violations, consolidated_violations, related_pair, related_result>>
    /\ UNCHANGED <<au_vars, fd_vars>>

\* the rows _group_violations_by_incident can compare: timestamps on the
\* hour, one tick past it, or NaT; locations with and without blanks, or null
RelatedTimes == {Hours(0), Hours(2), HoursAnd(2, 1), NaT}
RelatedMethods == {"volume_excess", "excessive_consumption_mpg", "idle_abuse", "timing_anomaly"}
RelatedLocations == {"Depot", "Depot ", " Yard", NoLocation}

RelatedRows ==
    {[vehicle_id |-> v, timestamp |-> t, detection_method |-> m, location |-> l] :
        v \in Vehicles, t \in RelatedTimes, m \in RelatedMethods, l \in RelatedLocations}

RelatedInit ==
    /\ violations = <<>>
    /\ consolidated_violations = <<>>
    /\ financial_summary = NoSummary
    /\ related_pair \in RelatedRows \X RelatedRows
    /\ related_result = "none"
    /\ dd_pc = "compare"

\* self._are_violations_related(v1, v2), and with the arguments exchanged
AreViolationsRelated ==
    /\ dd_pc = "compare"
    /\ related_result' =
           [forward |-> are_violations_related(related_pair[1], related_pair[2]),
            backward |-> are_violations_related(related_pair[2], related_pair[1])]
    /\ dd_pc' = "compared"
    /\ UNCHANGED <<violations, consolidated_violations, financial_summary, related_pair>>
    /\ UNCHANGED <<au_vars, fd_vars>>

-----------------------------------------------------------------------------
(* Tables and time.  A table is what a parser hands to load_data: its rows  *)
(* in file order, and (for fuel) whether the optional amount column exists. *)
(* `loaded` is FALSE for a source passed as None.                           *)

\* A table is a DataFrame or None.  timestamp_dtype is the dtype of its
\* timestamp column: "datetime64[ns]" when the parser converted it, "object"
\* when the column holds the text of the export; a row's timestamp is the
\* instant the value denotes in either case.
NoTable ==
    [loaded |-> FALSE, amount_column |-> FALSE, timestamp_dtype |-> "datetime64[ns]", rows |-> <<>>]

Table(rows, amount_column) ==
    [loaded |-> TRUE, amount_column |-> amount_column, timestamp_dtype |-> "datetime64[ns]", rows |-> rows]

\* a table whose timestamp column was left as text
TextTable(rows, amount_column) ==
    [loaded |-> TRUE, amount_column |-> amount_column, timestamp_dtype |-> "object", rows |-> rows]

\* df['timestamp'] = pd.to_datetime(df['timestamp'])
to_datetime(table) == [table EXCEPT !.timestamp_dtype = "datetime64[ns]"]

HoursPerDay == 24
DaysPerWeek == 7

\* Timestamp.hour, Timestamp.date(), Timestamp.weekday() (Monday is 0)
HourOf(t) == (t \div TicksPerHour) % HoursPerDay
DateOf(t) == t \div (HoursPerDay * TicksPerHour)
WeekdayOf(t) == DateOf(t) % DaysPerWeek

\* Timedelta.days of a non-negative difference
DaysOf(ticks) == ticks \div (HoursPerDay * TicksPerHour)

RECURSIVE SeqMin(_, _)
SeqMin(s, k) == IF k = 1 THEN s[1] ELSE Min2(SeqMin(s, k - 1), s[k])
RECURSIVE SeqMax(_, _)
SeqMax(s, k) == IF k = 1 THEN s[1] ELSE Max2(SeqMax(s, k - 1), s[k])

\* the timestamp column of a table (scheduled_time for jobs)
TimeColumn(table) == [k \in 1..Len(table.rows) |-> table.rows[k].timestamp]

\* DataFrame.empty
IsEmpty(table) == Len(table.rows) = 0

-----------------------------------------------------------------------------
(* FleetAuditor: date ranges and overlaps                                   *)

Sources == {"gps", "fuel", "jobs"}

\* the pairs the nested loops of _analyze_overlaps visit, in their order
\* (date_ranges is filled in the order gps, fuel, jobs)
SourcePairs == << <<"gps", "fuel">>, <<"gps", "jobs">>, <<"fuel", "jobs">> >>

DataOf(source, gps, fuel, jobs) ==
    CASE source = "gps" -> gps
      [] source = "fuel" -> fuel
      [] source = "jobs" -> jobs

\* _analyze_date_ranges
analyze_date_ranges(gps, fuel, jobs) ==
    LET present == {s \in Sources :
                       /\ DataOf(s, gps, fuel, jobs).loaded
                       /\ ~IsEmpty(DataOf(s, gps, fuel, jobs))}
    IN [s \in present |->
          LET col == TimeColumn(DataOf(s, gps, fuel, jobs))
          IN [start |-> SeqMin(col, Len(col)),
              end |-> SeqMax(col, Len(col)),
              count |-> Len(col)]]

\* overlap_start = max(range1['start'], range2['start']), overlap_end likewise
overlap_start(dr, p) == Max2(dr[p[1]].start, dr[p[2]].start)
overlap_end(dr, p) == Min2(dr[p[1]].end, dr[p[2]].end)

\* mutant of has_overlap: the comparison the other way round
has_overlap_inverted(dr, p) == overlap_start(dr, p) >= overlap_end(dr, p)

\* if overlap_start <= overlap_end
has_overlap(dr, p) == overlap_start(dr, p) <= overlap_end(dr, p)

\* total_days_source = (range['end'] - range['start']).days + 1
total_days(r) == DaysOf(r.end - r.start) + 1

\* overlap_days < min_total_days * 0.3
limited_overlap(dr, p) ==
    LET overlap_days == DaysOf(overlap_end(dr, p) - overlap_start(dr, p)) + 1
        min_total_days == Min2(total_days(dr[p[1]]), total_days(dr[p[2]]))
    IN 10 * overlap_days < 3 * min_total_days

\* the warnings appended while the loops run over pairs 1..k
RECURSIVE OverlapWarnings(_, _, _)
OverlapWarnings(dr, pairs, k) ==
    IF k = 0 THEN <<>>
    ELSE LET p == pairs[k]
             before == OverlapWarnings(dr, pairs, k - 1)
         IN IF has_overlap(dr, p)
            THEN IF limited_overlap(dr, p)
                 THEN Append(before, [type |-> "limited_overlap", sources |-> p,
                                      gap_days |-> 0])
                 ELSE before
            ELSE Append(before, [type |-> "no_overlap", sources |-> p,
                                 gap_days |-> DaysOf(overlap_start(dr, p) - overlap_end(dr, p))])

\* _analyze_overlaps; a key f"{source1}_{source2}" is the pair <<source1, source2>>
analyze_overlaps(dr) ==
    LET pairs == SelectSeq(SourcePairs, LAMBDA p : p[1] \in DOMAIN dr /\ p[2] \in DOMAIN dr)
        keys == {pairs[k] : k \in 1..Len(pairs)}
    IN [has_overlaps |-> [p \in keys |-> has_overlap(dr, p)],
        overlap_periods |->
            [p \in {q \in keys : has_overlap(dr, q)} |->
                [start |-> overlap_start(dr, p),
                 end |-> overlap_end(dr, p),
                 days |-> DaysOf(overlap_end(dr, p) - overlap_start(dr, p)) + 1]],
        warnings |-> OverlapWarnings(dr, pairs, Len(pairs))]

\* mutant of FilterToPeriod: the window without its end points
FilterToPeriodExclusive(table, period) ==
    IF table.loaded
    THEN SelectSeq(table.rows,
                   LAMBDA r : r.timestamp > period.start /\ r.timestamp < period.end)
    ELSE <<>>

\* the rows of a table inside [start_date, end_date], as a new DataFrame;
\* pd.DataFrame() (no rows) when the source is None
FilterToPeriod(table, period) ==
    IF table.loaded
    THEN SelectSeq(table.rows,
                   LAMBDA r : r.timestamp >= period.start /\ r.timestamp <= period.end)
    ELSE <<>>

\* get_filtered_data_for_comparison(source1, source2): the pair of DataFrames
\* (as row lists)
get_filtered_data_for_comparison(source1, source2, gps, fuel, jobs, oa) ==
    LET overlap_key == <<source1, source2>>
        alt_overlap_key == <<source2, source1>>
    IN IF overlap_key \in DOMAIN oa.overlap_periods
       THEN <<FilterToPeriod(DataOf(source1, gps, fuel, jobs), oa.overlap_periods[overlap_key]),
              FilterToPeriod(DataOf(source2, gps, fuel, jobs), oa.overlap_periods[overlap_key])>>
       ELSE IF alt_overlap_key \in DOMAIN oa.overlap_periods
       THEN <<FilterToPeriod(DataOf(source1, gps, fuel, jobs), oa.overlap_periods[alt_overlap_key]),
              FilterToPeriod(DataOf(source2, gps, fuel, jobs), oa.overlap_periods[alt_overlap_key])>>
       ELSE << <<>>, <<>> >>

-----------------------------------------------------------------------------
(* pandas idioms used by the detectors                                      *)

\* the concatenation of the lists ss[1], ..., ss[k] (list.extend in a loop)
RECURSIVE FlattenTo(_, _)
FlattenTo(ss, k) == IF k = 0 THEN <<>> ELSE FlattenTo(ss, k - 1) \o ss[k]

Flatten(ss) == FlattenTo(ss, Len(ss))

\* vehicle ids in the order groupby('vehicle_id') yields its groups (sorted keys)
VehicleOrder == <<"TRUCK-2", "VAN-1">>

\* df[df['vehicle_id'] == vehicle_id]
RowsOfVehicle(rows, vehicle_id) == SelectSeq(rows, LAMBDA r : r.vehicle_id = vehicle_id)

\* sort_values('timestamp') on a short frame: rows of equal timestamp keep
\* their order, rows with NaT go last (na_position='last')
RECURSIVE SortByTime(_)
SortByTime(rows) ==
    IF Len(rows) <= 1 THEN rows
    ELSE LET n == Len(rows)
             head == SortByTime(SubSeq(rows, 1, n - 1))
             last == rows[n]
             before == SelectSeq(head, LAMBDA r : \/ IsNaT(last.timestamp)
                                                  \/ /\ ~IsNaT(r.timestamp)
                                                     /\ r.timestamp <= last.timestamp)
             after == SelectSeq(head, LAMBDA r : /\ ~IsNaT(last.timestamp)
                                                 /\ \/ IsNaT(r.timestamp)
                                                    \/ r.timestamp > last.timestamp)
         IN before \o <<last>> \o after

\* the distinct dates of some rows, ascending (groupby(timestamp.dt.date));
\* groupby drops the rows whose key is null
DatesOf(rows) ==
    Ascending({DateOf(rows[k].timestamp) : k \in {j \in 1..Len(rows) : ~IsNaT(rows[j].timestamp)}})

RowsOfDate(rows, date) ==
    SelectSeq(rows, LAMBDA r : ~IsNaT(r.timestamp) /\ DateOf(r.timestamp) = date)

-----------------------------------------------------------------------------
(* utils.py                                                                 *)

NoCoordinates == "None"

\* geocode_address: the placeholder returns (None, None) for every address
geocode_address(address) == NoCoordinates

\* calculate_distance between two GPS rows: positions are mile markers along
\* one road, so the haversine distance is their difference
calculate_distance(pos1, pos2) == IF pos1 >= pos2 THEN pos1 - pos2 ELSE pos2 - pos1

\* find_gps_near_location: nothing when there are no coordinates
find_gps_near_location(gps_rows, coordinates, timestamp) ==
    IF coordinates = NoCoordinates THEN <<>> ELSE gps_rows

business_start_hour == 7
business_end_hour == 18

\* is_business_hours(timestamp, start_hour, end_hour)
is_business_hours(timestamp, start_hour, end_hour) ==
    IF IsNaT(timestamp) THEN FALSE
    ELSE IF WeekdayOf(timestamp) >= 5 THEN FALSE
    ELSE start_hour <= HourOf(timestamp) /\ HourOf(timestamp) <= end_hour

min_idle_minutes == 10
max_speed_mph == 3
MinutesPerHour == 60

\* detect_idle_periods: the runs of consecutive rows with equal is_idle
RECURSIVE IdleGroups(_, _, _)
IdleGroups(rows, k, max_speed) ==
    IF k = 0 THEN <<>>
    ELSE LET prev == IdleGroups(rows, k - 1, max_speed)
         IN IF k > 1 /\ ((rows[k].speed_mph <= max_speed) = (rows[k - 1].speed_mph <= max_speed))
            THEN [prev EXCEPT ![Len(prev)] = Append(@, rows[k])]
            ELSE Append(prev, <<rows[k]>>)

\* mutant of long_enough: a run of exactly the minimum is left out
longer_than_minimum(duration_minutes, min_minutes) == duration_minutes > min_minutes

\* if duration_minutes >= min_idle_minutes
long_enough(duration_minutes, min_minutes) == duration_minutes >= min_minutes

\* detect_idle_periods(gps_df, min_idle_minutes, max_speed_mph)
detect_idle_periods(gps_rows, min_minutes, max_speed) ==
    LET OfGroup(vehicle_id, group_data) ==
            LET times == [k \in 1..Len(group_data) |-> group_data[k].timestamp]
                start_time == SeqMin(times, Len(times))
                end_time == SeqMax(times, Len(times))
                duration_minutes == ((end_time - start_time) * MinutesPerHour) \div TicksPerHour
            IN IF /\ group_data[1].speed_mph <= max_speed
                  /\ long_enough(duration_minutes, min_minutes)
               THEN << [vehicle_id |-> vehicle_id,
                        start_time |-> start_time,
                        end_time |-> end_time,
                        duration_minutes |-> duration_minutes,
                        violation_type |-> "idle_abuse"] >>
               ELSE <<>>
        OfVehicle(vehicle_id) ==
            LET vehicle_data == SortByTime(RowsOfVehicle(gps_rows, vehicle_id))
                groups == IdleGroups(vehicle_data, Len(vehicle_data), max_speed)
            IN Flatten([i \in 1..Len(groups) |-> OfGroup(vehicle_id, groups[i])])
    IN Flatten([i \in 1..Len(VehicleOrder) |-> OfVehicle(VehicleOrder[i])])

\* filter_business_hours_violations(gps_df, start_hour, end_hour)
filter_business_hours_violations(gps_rows, start_hour, end_hour) ==
    LET after_hours == SelectSeq(gps_rows,
                           LAMBDA r : ~is_business_hours(r.timestamp, start_hour, end_hour))
        OfVehicle(vehicle_id) ==
            LET vehicle_data == RowsOfVehicle(after_hours, vehicle_id)
                dates == DatesOf(vehicle_data)
                OfDate(date) ==
                    LET daily_data == RowsOfDate(vehicle_data, date)
                        times == [k \in 1..Len(daily_data) |-> daily_data[k].timestamp]
                    IN << [vehicle_id |-> vehicle_id,
                           date |-> date,
                           first_violation_time |-> SeqMin(times, Len(times)),
                           last_violation_time |-> SeqMax(times, Len(times)),
                           total_records |-> Len(daily_data),
                           violation_type |-> "after_hours_driving"] >>
            IN Flatten([i \in 1..Len(dates) |-> OfDate(dates[i])])
    IN Flatten([i \in 1..Len(VehicleOrder) |-> OfVehicle(VehicleOrder[i])])

-----------------------------------------------------------------------------
(* FleetAuditor: the GPS cross-reference detectors                          *)

\* detect_fuel_theft()
detect_fuel_theft(gps, fuel, jobs, oa) ==
    IF ~fuel.loaded \/ ~gps.loaded THEN <<>>
    ELSE LET filtered == get_filtered_data_for_comparison("fuel", "gps", gps, fuel, jobs, oa)
             filtered_fuel == filtered[1]
             filtered_gps == filtered[2]
             Flagged(fuel_record) ==
                 LET vehicle_gps == RowsOfVehicle(filtered_gps, fuel_record.vehicle_id)
                     coordinates == geocode_address(fuel_record.location)
                 IN /\ Len(vehicle_gps) > 0
                    /\ coordinates # NoCoordinates
                    /\ Len(find_gps_near_location(vehicle_gps, coordinates,
                                                  fuel_record.timestamp)) = 0
             OfRecord(fuel_record) ==
                 IF Flagged(fuel_record)
                 THEN << [vehicle_id |-> fuel_record.vehicle_id,
                          timestamp |-> fuel_record.timestamp,
                          location |-> fuel_record.location,
                          gallons |-> fuel_record.gallons,
                          violation_type |-> "fuel_theft"] >>
                 ELSE <<>>
         IN IF Len(filtered_fuel) = 0 \/ Len(filtered_gps) = 0 THEN <<>>
            ELSE Flatten([i \in 1..Len(filtered_fuel) |-> OfRecord(filtered_fuel[i])])

\* detect_ghost_jobs()
detect_ghost_jobs(gps, fuel, jobs, oa) ==
    IF ~jobs.loaded \/ ~gps.loaded THEN <<>>
    ELSE LET filtered == get_filtered_data_for_comparison("jobs", "gps", gps, fuel, jobs, oa)
             filtered_jobs == filtered[1]
             filtered_gps == filtered[2]
             OfRecord(job_record) ==
                 IF geocode_address(job_record.address) = NoCoordinates
                 THEN <<>>
                 ELSE << [job_id |-> job_record.job_id,
                          driver_id |-> job_record.driver_id,
                          scheduled_time |-> job_record.timestamp,
                          address |-> job_record.address,
                          violation_type |-> "ghost_job"] >>
         IN IF Len(filtered_jobs) = 0 \/ Len(filtered_gps) = 0 THEN <<>>
            ELSE Flatten([i \in 1..Len(filtered_jobs) |-> OfRecord(filtered_jobs[i])])

\* detect_idle_abuse()
detect_idle_abuse(gps) ==
    IF ~gps.loaded THEN <<>>
    ELSE detect_idle_periods(gps.rows, min_idle_minutes, max_speed_mph)

\* detect_after_hours_driving()
detect_after_hours_driving(gps) ==
    IF ~gps.loaded THEN <<>>
    ELSE filter_business_hours_violations(gps.rows, business_start_hour, business_end_hour)

-----------------------------------------------------------------------------
(* EnhancedFuelDetector.  Gallons are whole gallons, money is in cents.      *)
(* A fuel row is [vehicle_id, timestamp, location, gallons, amount] with     *)
(* gallons and amount Num(n) or NaN (amount is Missing in a table that has   *)
(* no amount column).                                                        *)

\* self.avg_fuel_price, self.price_tolerance (cents per gallon)
avg_fuel_price == 375
price_tolerance == 40

\* self.default_tank_capacity (self.vehicle_capacities is empty)
default_tank_capacity == 40

IsNum(x) == x.kind = "num"

\* Series.sum(): NaN is skipped
RECURSIVE SumSkipNa(_, _)
SumSkipNa(xs, k) ==
    IF k = 0 THEN 0
    ELSE SumSkipNa(xs, k - 1) + (IF IsNum(xs[k]) THEN xs[k].val ELSE 0)

\* Series.dropna() of a numeric column, as the list of its values
DropNa(xs) == LET kept == SelectSeq(xs, IsNum) IN [k \in 1..Len(kept) |-> kept[k].val]

RECURSIVE SumSeq(_, _)
SumSeq(xs, k) == IF k = 0 THEN 0 ELSE SumSeq(xs, k - 1) + xs[k]

RECURSIVE SumSquares(_, _)
SumSquares(xs, k) == IF k = 0 THEN 0 ELSE SumSquares(xs, k - 1) + xs[k] * xs[k]

\* n * (n - 1) * variance of a list: zero exactly when std() is zero
ScaledVariance(xs) == Len(xs) * SumSquares(xs, Len(xs)) - SumSeq(xs, Len(xs)) * SumSeq(xs, Len(xs))

\* _prepare_fuel_data works on a copy whose timestamp column it converts;
\* the amount column is estimated from gallons when the
\* table has none; an amount that is there goes through str and to_numeric
\* (None becomes "None" and then NaN, a number stays what it is)
prepare_fuel_data(table) ==
    [loaded |-> TRUE,
     amount_column |-> TRUE,
     timestamp_dtype |-> to_datetime(table).timestamp_dtype,
     rows |-> [k \in 1..Len(table.rows) |->
                  [table.rows[k] EXCEPT !.amount =
                      IF table.amount_column
                      THEN (IF IsNum(@) THEN @ ELSE NaN)
                      ELSE (IF IsNum(table.rows[k].gallons)
                            THEN Num(table.rows[k].gallons.val * avg_fuel_price)
                            ELSE NaN)]]]

\* the tiers of _assess_data_quality and their confidence multipliers
\* (thousandths)
confidence_multiplier(tier) ==
    CASE tier = 1 -> 1000
      [] tier = 2 -> 800
      [] tier = 3 -> 700
      [] OTHER -> 500

\* _assess_data_quality(fuel_df)
assess_data_quality(table) ==
    LET has_amount == table.amount_column /\ \E k \in 1..Len(table.rows) : IsNum(table.rows[k].amount)
        has_gallons == \E k \in 1..Len(table.rows) : IsNum(table.rows[k].gallons)
        tier == IF has_amount /\ has_gallons THEN 1
                ELSE IF has_amount THEN 2
                ELSE IF has_gallons THEN 3
                ELSE 4
    IN [tier |-> tier, confidence_multiplier |-> confidence_multiplier(tier)]

\* the dict a fuel sub-detector appends.  base_confidence records the
\* confidence the sub-detector wrote, before any tier adjustment; data_tier is
\* 0 until detect_enhanced_fuel_theft sets it.
FuelViolation(vehicle_id, timestamp, method, location, gallons, severity, confidence) ==
    [vehicle_id |-> vehicle_id,
     timestamp |-> timestamp,
     violation_type |-> "fuel_theft",
     detection_method |-> method,
     location |-> location,
     gallons |-> gallons,
     severity |-> severity,
     confidence |-> confidence,
     base_confidence |-> confidence,
     estimated_loss |-> Missing,
     data_tier |-> 0]

\* the purchase before `purchase` in a vehicle's time-sorted rows:
\* vehicle_data[vehicle_data['timestamp'] < purchase['timestamp']].iloc[-1]
PreviousPurchases(vehicle_data, purchase) ==
    SelectSeq(vehicle_data, LAMBDA r : /\ ~IsNaT(r.timestamp) /\ ~IsNaT(purchase.timestamp)
                                       /\ r.timestamp < purchase.timestamp)

\* the three suspicious_conditions of the rapid-refill check
suspicious_conditions(last_purchase, purchase, tank_capacity) ==
    LET ticks_since_last == purchase.timestamp - last_purchase.timestamp
        last_gallons == last_purchase.gallons
        gallons == purchase.gallons.val
    IN \/ /\ ticks_since_last < 12 * TicksPerHour
          /\ IsNum(last_gallons) /\ 10 * last_gallons.val > 9 * tank_capacity
          /\ 10 * gallons > 12 * tank_capacity
       \/ /\ ticks_since_last < 8 * TicksPerHour
          /\ IsNum(last_gallons) /\ last_gallons.val > tank_capacity
          /\ gallons > tank_capacity
       \/ /\ ticks_since_last < 16 * TicksPerHour
          /\ HourOf(last_purchase.timestamp) >= 18
          /\ HourOf(purchase.timestamp) <= 10
          /\ IsNum(last_gallons) /\ 10 * last_gallons.val > 8 * tank_capacity
          /\ 10 * gallons > 9 * tank_capacity

\* the confidence of a flagged rapid refill
rapid_refill_confidence(last_purchase, purchase) ==
    IF /\ IsNum(last_purchase.gallons) /\ last_purchase.gallons.val < 5
       /\ purchase.timestamp - last_purchase.timestamp < 2 * TicksPerHour
    THEN 600
    ELSE IF purchase.location # last_purchase.location THEN 800
    ELSE 950

\* mutant of exceeds_tank_capacity: only a purchase of more than 1.2 tanks
exceeds_tank_capacity_by_fifth(gallons, tank_capacity) == 10 * gallons > 12 * tank_capacity

\* Check 1 of _detect_volume_violations: if gallons > tank_capacity
exceeds_tank_capacity(gallons, tank_capacity) == gallons > tank_capacity

\* _detect_volume_violations(fuel_df)
detect_volume_violations(rows) ==
    LET tank_capacity == default_tank_capacity
        OfVehicle(vehicle_id) ==
            LET vehicle_data == SortByTime(RowsOfVehicle(rows, vehicle_id))
                OfPurchase(purchase) ==
                    IF ~IsNum(purchase.gallons) \/ purchase.gallons.val <= 0 THEN <<>>
                    ELSE LET previous_purchases == PreviousPurchases(vehicle_data, purchase)
                             last_purchase == previous_purchases[Len(previous_purchases)]
                             confidence == rapid_refill_confidence(last_purchase, purchase)
                         IN (IF exceeds_tank_capacity(purchase.gallons.val, tank_capacity)
                             THEN << FuelViolation(vehicle_id, purchase.timestamp, "volume_excess",
                                                   purchase.location, purchase.gallons,
                                                   "high", 950) >>
                             ELSE <<>>)
                            \o
                            (IF Len(previous_purchases) > 0
                                /\ suspicious_conditions(last_purchase, purchase, tank_capacity)
                             THEN << FuelViolation(vehicle_id, purchase.timestamp,
                                                   "obvious_rapid_refill",
                                                   purchase.location, purchase.gallons,
                                                   IF confidence > 800 THEN "high" ELSE "medium",
                                                   confidence) >>
                             ELSE <<>>)
            IN Flatten([i \in 1..Len(vehicle_data) |-> OfPurchase(vehicle_data[i])])
    IN Flatten([i \in 1..Len(VehicleOrder) |-> OfVehicle(VehicleOrder[i])])

\* _detect_price_violations(fuel_df): the rows in file order
detect_price_violations(rows) ==
    LET OfPurchase(purchase) ==
            IF ~IsNum(purchase.gallons) \/ ~IsNum(purchase.amount) THEN <<>>
            ELSE LET gallons == purchase.gallons.val
                     amount == purchase.amount.val
                     max_expected == gallons * (avg_fuel_price + price_tolerance)
                     confidence == IF 1500 <= amount /\ amount <= 6000 /\ gallons < 15
                                   THEN 450 ELSE 750
                 IN IF gallons <= 0 \/ amount <= 0 THEN <<>>
                    ELSE IF 2 * amount > 3 * max_expected
                    THEN << FuelViolation(purchase.vehicle_id, purchase.timestamp, "price_excess",
                                          purchase.location, purchase.gallons,
                                          IF confidence > 600 THEN "medium" ELSE "low",
                                          confidence) >>
                    ELSE IF amount > (avg_fuel_price + 200) * gallons
                    THEN << FuelViolation(purchase.vehicle_id, purchase.timestamp, "price_premium",
                                          purchase.location, purchase.gallons, "low", 500) >>
                    ELSE <<>>
    IN Flatten([i \in 1..Len(rows) |-> OfPurchase(rows[i])])

RECURSIVE Gcd(_, _)
Gcd(a, b) == IF b = 0 THEN a ELSE Gcd(b, a % b)

\* the largest unit of which the amounts 1..k are whole multiples (0 for none)
RECURSIVE CommonUnit(_, _)
CommonUnit(xs, k) == IF k = 0 THEN 0 ELSE Gcd(xs[k], CommonUnit(xs, k - 1))

\* mutant of is_outlier: the baseline is the vehicle's other amounts
is_outlier_among_others(amounts, x) ==
    LET j == CHOOSE k \in 1..Len(amounts) :
                 amounts[k] = x /\ \A q \in 1..(k - 1) : amounts[q] # x
        others == [k \in 1..(Len(amounts) - 1) |-> IF k < j THEN amounts[k] ELSE amounts[k + 1]]
        n == Len(others)
        S == SumSeq(others, n)
    IN /\ n > 1
       /\ (n * x - S) * (n * x - S) * (n - 1) > 9 * n * ScaledVariance(others)
       /\ n * x > S

\* amount_zscore > 3.0 and purchase['amount'] > avg_amount, for the amount x
\* of one of the purchases behind `amounts`
is_outlier(amounts, x) ==
    LET n == Len(amounts)
        S == SumSeq(amounts, n)
    IN /\ n > 1
       /\ (n * x - S) * (n * x - S) * (n - 1) > 9 * n * ScaledVariance(amounts)
       /\ n * x > S

\* _detect_pattern_violations(fuel_df): a purchase more than 3 sample standard
\* deviations above the vehicle's mean amount; the mean and the deviation are
\* taken over all the vehicle's amounts, the purchase's own included.  With n
\* amounts of sum S, |x - mean| / std > 3 is
\* (n*x - S)^2 * (n - 1) > 9 * n * (n*sum(x^2) - S^2).  The z-score is the
\* same in any unit of money, so the amounts are counted in their common unit,
\* which keeps the squares small.
detect_pattern_violations(rows) ==
    LET OfVehicle(vehicle_id) ==
            LET vehicle_data == RowsOfVehicle(rows, vehicle_id)
                cents == DropNa([k \in 1..Len(vehicle_data) |-> vehicle_data[k].amount])
                unit == Max2(1, CommonUnit(cents, Len(cents)))
                amounts == [k \in 1..Len(cents) |-> cents[k] \div unit]
                gallons == DropNa([k \in 1..Len(vehicle_data) |-> vehicle_data[k].gallons])
                n == Len(amounts)
                OfPurchase(purchase) ==
                    IF ~IsNum(purchase.amount) \/ ~IsNum(purchase.gallons) THEN <<>>
                    ELSE IF is_outlier(amounts, purchase.amount.val \div unit)
                            THEN << FuelViolation(vehicle_id, purchase.timestamp,
                                                  "pattern_deviation", purchase.location,
                                                  purchase.gallons, "medium", 700) >>
                            ELSE <<>>
            IN IF Len(vehicle_data) < 5 THEN <<>>
               ELSE IF Len(amounts) = 0 \/ Len(gallons) = 0 THEN <<>>
               ELSE IF (n > 1 /\ ScaledVariance(amounts) = 0)
                       \/ (Len(gallons) > 1 /\ ScaledVariance(gallons) = 0) THEN <<>>
               ELSE Flatten([i \in 1..Len(vehicle_data) |-> OfPurchase(vehicle_data[i])])
    IN Flatten([i \in 1..Len(VehicleOrder) |-> OfVehicle(VehicleOrder[i])])

\* mutant of exceeds_daily_limit: the limit of 1.5 tanks the code had before
exceeds_daily_limit_of_old(total_gallons, tank_capacity) == 2 * total_gallons > 3 * tank_capacity

\* if total_gallons > tank_capacity * 2.0
exceeds_daily_limit(total_gallons, tank_capacity) == total_gallons > 2 * tank_capacity

\* _detect_frequency_violations(fuel_df)
detect_frequency_violations(rows) ==
    LET tank_capacity == default_tank_capacity
        OfVehicle(vehicle_id) ==
            LET vehicle_data == SortByTime(RowsOfVehicle(rows, vehicle_id))
                dates == DatesOf(vehicle_data)
                OfDate(date) ==
                    LET day_purchases == RowsOfDate(vehicle_data, date)
                        count == Len(day_purchases)
                        total_gallons == SumSkipNa([k \in 1..count |-> day_purchases[k].gallons],
                                                   count)
                        \* avg_purchase = total_gallons / count against capacity * 0.3, * 0.5
                        confidence == IF 10 * total_gallons < 3 * tank_capacity * count THEN 600
                                      ELSE IF count >= 4 /\ 2 * total_gallons < tank_capacity * count
                                      THEN 550
                                      ELSE 850
                    IN IF count > 1 /\ exceeds_daily_limit(total_gallons, tank_capacity)
                       THEN << FuelViolation(vehicle_id, day_purchases[1].timestamp,
                                             "daily_excess", "Multiple locations",
                                             Num(total_gallons),
                                             IF confidence > 700 THEN "high" ELSE "medium",
                                             confidence) >>
                       ELSE <<>>
            IN Flatten([i \in 1..Len(dates) |-> OfDate(dates[i])])
    IN Flatten([i \in 1..Len(VehicleOrder) |-> OfVehicle(VehicleOrder[i])])

\* _detect_location_violations: returns the empty list it starts with
detect_location_violations(rows, gps) == <<>>

\* _detect_amount_only_violations(fuel_df)
detect_amount_only_violations(rows) ==
    LET tank_capacity == default_tank_capacity
        OfVehicle(vehicle_id) ==
            LET vehicle_data == SortByTime(RowsOfVehicle(rows, vehicle_id))
                vehicle_amounts == DropNa([k \in 1..Len(vehicle_data) |-> vehicle_data[k].amount])
                n == Len(vehicle_amounts)
                OfPurchase(purchase) ==
                    IF ~IsNum(purchase.amount) \/ purchase.amount.val <= 0 THEN <<>>
                    ELSE (IF 10 * purchase.amount.val > 16 * tank_capacity * avg_fuel_price
                          THEN << FuelViolation(vehicle_id, purchase.timestamp,
                                                "estimated_volume_excess", purchase.location,
                                                Missing, "high", 800) >>
                          ELSE <<>>)
                         \o
                         (IF n >= 5 /\ n * purchase.amount.val > 3 * SumSeq(vehicle_amounts, n)
                          THEN << FuelViolation(vehicle_id, purchase.timestamp,
                                                "extreme_amount_deviation", purchase.location,
                                                Missing, "high", 850) >>
                          ELSE <<>>)
            IN Flatten([i \in 1..Len(vehicle_data) |-> OfPurchase(vehicle_data[i])])
    IN Flatten([i \in 1..Len(VehicleOrder) |-> OfVehicle(VehicleOrder[i])])

\* _detect_basic_violations(fuel_df)
detect_basic_violations(rows) ==
    LET OfVehicle(vehicle_id) ==
            LET vehicle_data == SortByTime(RowsOfVehicle(rows, vehicle_id))
                dates == DatesOf(vehicle_data)
                OfDate(date) ==
                    LET day_purchases == RowsOfDate(vehicle_data, date)
                    IN IF Len(day_purchases) > 2
                       THEN << FuelViolation(vehicle_id, day_purchases[1].timestamp,
                                             "frequency_anomaly", "Multiple locations",
                                             Missing, "low", 500) >>
                       ELSE <<>>
                OfPurchase(purchase) ==
                    IF /\ ~IsNaT(purchase.timestamp)
                       /\ (HourOf(purchase.timestamp) < 5 \/ HourOf(purchase.timestamp) > 23)
                    THEN << FuelViolation(vehicle_id, purchase.timestamp, "timing_anomaly",
                                          purchase.location, Missing, "low", 450) >>
                    ELSE <<>>
            IN Flatten([i \in 1..Len(dates) |-> OfDate(dates[i])])
               \o Flatten([i \in 1..Len(vehicle_data) |-> OfPurchase(vehicle_data[i])])
    IN Flatten([i \in 1..Len(VehicleOrder) |-> OfVehicle(VehicleOrder[i])])

\* violation['confidence'] *= data_tier['confidence_multiplier']
adjust_confidence(confidence, multiplier) == (confidence * multiplier) \div 1000

\* detect_enhanced_fuel_theft(fuel_df, gps_df)
detect_enhanced_fuel_theft(fuel, gps) ==
    IF ~fuel.loaded \/ IsEmpty(fuel) THEN <<>>
    ELSE LET df == prepare_fuel_data(fuel)
             data_tier == assess_data_quality(df)
             found == IF data_tier.tier >= 1
                      THEN detect_volume_violations(df.rows)
                           \o detect_price_violations(df.rows)
                           \o detect_pattern_violations(df.rows)
                           \o detect_frequency_violations(df.rows)
                      ELSE IF data_tier.tier >= 2
                      THEN detect_amount_only_violations(df.rows)
                           \o detect_pattern_violations(df.rows)
                           \o detect_frequency_violations(df.rows)
                      ELSE IF data_tier.tier >= 3
                      THEN detect_volume_violations(df.rows)
                           \o detect_pattern_violations(df.rows)
                      ELSE detect_basic_violations(df.rows)
             adjusted == [k \in 1..Len(found) |->
                             [found[k] EXCEPT
                                 !.data_tier = data_tier.tier,
                                 !.confidence = adjust_confidence(@, data_tier.confidence_multiplier)]]
         IN IF gps.loaded /\ ~IsEmpty(gps)
            THEN adjusted \o detect_location_violations(df.rows, gps)
            ELSE adjusted

-----------------------------------------------------------------------------
(* MPGAnalyzer.  A GPS row is [vehicle_id, timestamp, pos, speed_mph]; pos   *)
(* is the mile marker of the ping on one road, so that the haversine         *)
(* distance of two pings is the difference of their markers.                 *)

\* self.mpg_expectations: min, and avg in tenths of a mile per gallon
mpg_expectations(vehicle_type) ==
    CASE vehicle_type = "truck" -> [min |-> 7, avg10 |-> 90]
      [] vehicle_type = "van" -> [min |-> 12, avg10 |-> 150]
      [] vehicle_type = "pickup" -> [min |-> 15, avg10 |-> 200]
      [] vehicle_type = "car" -> [min |-> 20, avg10 |-> 280]
      [] OTHER -> [min |-> 9, avg10 |-> 105]

\* self.violation_thresholds
minimum_miles == 5
minimum_fuel == 3

\* _get_vehicle_type(vehicle_id, None): keywords in the lower-cased id
get_vehicle_type(vehicle_id) ==
    CASE vehicle_id = "TRUCK-2" -> "truck"
      [] vehicle_id = "VAN-1" -> "van"
      [] OTHER -> "default"

\* the dict the MPG classifier appends; estimated_loss is in cents
MpgViolation(vehicle_id, fuel_record, violation_type, method, severity, confidence, loss) ==
    [vehicle_id |-> vehicle_id,
     timestamp |-> fuel_record.timestamp,
     violation_type |-> violation_type,
     detection_method |-> method,
     location |-> fuel_record.location,
     severity |-> severity,
     confidence |-> confidence,
     estimated_loss |-> Num(loss)]

\* total distance over consecutive pings of the window, pings 1..k
RECURSIVE PathLength(_, _)
PathLength(pings, k) ==
    IF k <= 1 THEN 0
    ELSE PathLength(pings, k - 1) + calculate_distance(pings[k - 1].pos, pings[k].pos)

\* _calculate_distance_between_times(gps_df, start_time, end_time)
calculate_distance_between_times(vehicle_gps, start_time, end_time) ==
    LET time_filtered == SelectSeq(vehicle_gps,
                             LAMBDA r : r.timestamp >= start_time /\ r.timestamp <= end_time)
    IN IF Len(time_filtered) < 2 THEN 0 ELSE PathLength(time_filtered, Len(time_filtered))

\* mutant of analyze_mpg_violation: the 0.5 threshold is tested before the 0.3
analyze_mpg_violation_fraud_first(vehicle_id, fuel_record, distance, fuel_consumed, mpg_range) ==
    LET fuel_cost == fuel_consumed * avg_fuel_price
                     - ((distance * avg_fuel_price * 10) \div mpg_range.avg10)
    IN IF 10 * distance < 5 * mpg_range.min * fuel_consumed
       THEN << MpgViolation(vehicle_id, fuel_record, "fuel_theft", "odometer_fraud_mpg",
                            "high", 900, fuel_cost) >>
       ELSE IF 10 * distance < 7 * mpg_range.min * fuel_consumed
       THEN << MpgViolation(vehicle_id, fuel_record, "idle_abuse", "excessive_consumption_mpg",
                            "medium", 750, fuel_cost) >>
       ELSE <<>>

\* _analyze_mpg_violation: actual_mpg = distance / fuel_consumed against
\* min * 0.3, min * 0.5, min * 0.7; the loss is (fuel - distance / avg) * 3.75,
\* here rounded down to the cent
analyze_mpg_violation(vehicle_id, fuel_record, distance, fuel_consumed, mpg_range) ==
    LET fuel_cost == fuel_consumed * avg_fuel_price
                     - ((distance * avg_fuel_price * 10) \div mpg_range.avg10)
    IN IF 10 * distance < 3 * mpg_range.min * fuel_consumed
       THEN << MpgViolation(vehicle_id, fuel_record, "fuel_theft", "fuel_dumping_mpg",
                            "high", 950, fuel_cost) >>
       ELSE IF 10 * distance < 5 * mpg_range.min * fuel_consumed
       THEN << MpgViolation(vehicle_id, fuel_record, "fuel_theft", "odometer_fraud_mpg",
                            "high", 900, fuel_cost) >>
       ELSE IF 10 * distance < 7 * mpg_range.min * fuel_consumed
       THEN << MpgViolation(vehicle_id, fuel_record, "idle_abuse", "excessive_consumption_mpg",
                            "medium", 750, fuel_cost) >>
       ELSE <<>>

\* _create_idle_refill_violation: estimated_loss = fuel_consumed * 3.75 * 0.8
create_idle_refill_violation(vehicle_id, fuel_record, distance, fuel_consumed) ==
    MpgViolation(vehicle_id, fuel_record, "fuel_theft", "idle_refill_mpg", "high", 900,
                 (fuel_consumed * avg_fuel_price * 8) \div 10)

\* the loop of analyze_vehicle_mpg over the fill-ups 1..k+1 of a vehicle
RECURSIVE FillIntervals(_, _, _, _, _)
FillIntervals(vehicle_id, vehicle_fuel, vehicle_gps, mpg_range, k) ==
    IF k = 0 THEN <<>>
    ELSE LET current_fill == vehicle_fuel[k]
             next_fill == vehicle_fuel[k + 1]
             distance == calculate_distance_between_times(vehicle_gps, current_fill.timestamp,
                                                          next_fill.timestamp)
         IN FillIntervals(vehicle_id, vehicle_fuel, vehicle_gps, mpg_range, k - 1)
            \o (IF ~IsNum(next_fill.gallons) \/ next_fill.gallons.val < minimum_fuel
                THEN <<>>
                ELSE IF distance < minimum_miles
                THEN << create_idle_refill_violation(vehicle_id, next_fill, distance,
                                                     next_fill.gallons.val) >>
                ELSE analyze_mpg_violation(vehicle_id, next_fill, distance,
                                           next_fill.gallons.val, mpg_range))

\* analyze_vehicle_mpg(fuel_df, gps_df, vehicle_id, vehicle_type)
analyze_vehicle_mpg(fuel_rows, gps_rows, vehicle_id, vehicle_type) ==
    LET vehicle_fuel == SortByTime(RowsOfVehicle(fuel_rows, vehicle_id))
        vehicle_gps == SortByTime(RowsOfVehicle(gps_rows, vehicle_id))
    IN IF Len(fuel_rows) = 0 \/ Len(gps_rows) = 0 THEN <<>>
       ELSE IF Len(vehicle_fuel) = 0 \/ Len(vehicle_gps) = 0 THEN <<>>
       ELSE FillIntervals(vehicle_id, vehicle_fuel, vehicle_gps,
                          mpg_expectations(vehicle_type), Len(vehicle_fuel) - 1)

\* Series.unique(): the distinct vehicle ids in order of first appearance
RECURSIVE UniqueVehicles(_, _)
UniqueVehicles(rows, k) ==
    IF k = 0 THEN <<>>
    ELSE LET before == UniqueVehicles(rows, k - 1)
         IN IF \E q \in 1..Len(before) : before[q] = rows[k].vehicle_id
            THEN before
            ELSE Append(before, rows[k].vehicle_id)

-----------------------------------------------------------------------------
(* FuelOnlyAnalyzer                                                         *)

\* the price of a gallon in cents (3.75 in every estimate of the analyzer)
fuel_only_price == 375

\* a violation dict of the analyzer; it has no detection_method key
NoMethod == "<none>"

FuelAnomaly(vehicle_id, timestamp, anomaly_type, location, gallons, estimated_loss, severity, confidence) ==
    [vehicle_id |-> vehicle_id,
     timestamp |-> timestamp,
     violation_type |-> "fuel_anomalies",
     anomaly_type |-> anomaly_type,
     detection_method |-> NoMethod,
     location |-> location,
     gallons |-> gallons,
     estimated_loss |-> estimated_loss,
     severity |-> severity,
     confidence |-> confidence]

\* gallons * 3.75 * (percent / 100) in cents, rounded down to a cent
ShareOfCost(gallons, percent) ==
    IF IsNum(gallons) THEN Num((gallons.val * fuel_only_price * percent) \div 100) ELSE NaN

\* purchase.get('gallons', 0) or 0: NaN is truthy and stays
GallonsOrZero(purchase) == DictGet(purchase.gallons, 0)

\* fuel_df.dropna(subset=['timestamp'])
DropNaT(rows) == SelectSeq(rows, LAMBDA r : ~IsNaT(r.timestamp))

\* timestamp.time() == 00:00:00
IsMidnight(t) == t % (HoursPerDay * TicksPerHour) = 0

\* timestamps_with_time.any()
has_time_data(rows) == \E k \in 1..Len(rows) : ~IsMidnight(rows[k].timestamp)

\* detect_time_anomalies(fuel_df)
detect_time_anomalies(rows) ==
    LET fuel_df_clean == DropNaT(rows)
        OfPurchase(purchase) ==
            IF IsMidnight(purchase.timestamp) THEN <<>>
            ELSE (IF HourOf(purchase.timestamp) < 5 \/ HourOf(purchase.timestamp) > 22
                  THEN << FuelAnomaly(purchase.vehicle_id, purchase.timestamp, "unusual_hours",
                                      purchase.location, GallonsOrZero(purchase),
                                      ShareOfCost(GallonsOrZero(purchase), 30), "medium", 650) >>
                  ELSE <<>>)
                 \o (IF WeekdayOf(purchase.timestamp) >= 5
                     THEN << FuelAnomaly(purchase.vehicle_id, purchase.timestamp, "weekend_purchase",
                                         purchase.location, GallonsOrZero(purchase),
                                         ShareOfCost(GallonsOrZero(purchase), 20), "low", 550) >>
                     ELSE <<>>)
    IN IF Len(fuel_df_clean) = 0 \/ ~has_time_data(fuel_df_clean) THEN <<>>
       ELSE Flatten([k \in 1..Len(fuel_df_clean) |-> OfPurchase(fuel_df_clean[k])])

\* detect_volume_anomalies(fuel_df).  With n volumes of sum S the test
\* gallons > mean + 3 * std is n * gallons - S > 0 and
\* (n * gallons - S)^2 * (n - 1) > 9 * (n * (n - 1) * variance); one volume
\* alone has std NaN and passes no test.  The loss of the excess is rounded
\* down to a cent.
detect_volume_anomalies(rows) ==
    LET OfVehicle(vehicle_id) ==
            LET vehicle_data == RowsOfVehicle(rows, vehicle_id)
                volumes == DropNa([k \in 1..Len(vehicle_data) |-> vehicle_data[k].gallons])
                n == Len(volumes)
                total == SumSeq(volumes, n)
                OfPurchase(purchase) ==
                    IF /\ IsNum(purchase.gallons)
                       /\ n > 1
                       /\ n * purchase.gallons.val - total > 0
                       /\ (n * purchase.gallons.val - total) * (n * purchase.gallons.val - total)
                              * (n - 1) > 9 * n * ScaledVariance(volumes)
                    THEN << FuelAnomaly(vehicle_id, purchase.timestamp, "excessive_volume",
                                        purchase.location, purchase.gallons,
                                        Num(((n * purchase.gallons.val - total) * fuel_only_price * 60)
                                                \div (100 * n)),
                                        "high", 800) >>
                    ELSE <<>>
            IN IF Len(vehicle_data) < 3 THEN <<>>
               ELSE IF n = 0 THEN <<>>
               ELSE IF n > 1 /\ ScaledVariance(volumes) = 0 THEN <<>>
               ELSE Flatten([k \in 1..Len(vehicle_data) |-> OfPurchase(vehicle_data[k])])
    IN Flatten([i \in 1..Len(VehicleOrder) |-> OfVehicle(VehicleOrder[i])])

\* detect_frequency_anomalies(fuel_df)
detect_frequency_anomalies(rows) ==
    LET fuel_df_clean == DropNaT(rows)
        OfVehicle(vehicle_id) ==
            LET vehicle_data == SortByTime(RowsOfVehicle(fuel_df_clean, vehicle_id))
                dates == DatesOf(vehicle_data)
                OfDate(date) ==
                    LET day_purchases == RowsOfDate(vehicle_data, date)
                        total_gallons ==
                            SumSkipNa([k \in 1..Len(day_purchases) |-> day_purchases[k].gallons],
                                      Len(day_purchases))
                    IN IF Len(day_purchases) > 1
                          /\ ~\E k \in 1..Len(day_purchases) : IsMidnight(day_purchases[k].timestamp)
                       THEN << FuelAnomaly(vehicle_id, date * HoursPerDay * TicksPerHour,
                                           "multiple_daily_purchases", "Multiple locations",
                                           Num(total_gallons),
                                           ShareOfCost(Num(total_gallons), 40), "high", 750) >>
                       ELSE <<>>
            IN IF Len(vehicle_data) < 4 THEN <<>>
               ELSE Flatten([d \in 1..Len(dates) |-> OfDate(dates[d])])
    IN IF Len(fuel_df_clean) = 0 THEN <<>>
       ELSE Flatten([i \in 1..Len(VehicleOrder) |-> OfVehicle(VehicleOrder[i])])

\* the locations of some rows that are not null, each at its first row
RECURSIVE LocationsOf(_, _)
LocationsOf(rows, k) ==
    IF k = 0 THEN <<>>
    ELSE LET before == LocationsOf(rows, k - 1)
         IN IF rows[k].location = NoLocation \/ \E q \in 1..Len(before) : before[q] = rows[k].location
            THEN before
            ELSE Append(before, rows[k].location)

\* detect_location_anomalies(fuel_df); the locations used once are taken in
\* the order of their rows
detect_location_anomalies(rows) ==
    LET fuel_df_clean == DropNaT(rows)
        OfVehicle(vehicle_id) ==
            LET vehicle_data == RowsOfVehicle(fuel_df_clean, vehicle_id)
                locations == LocationsOf(vehicle_data, Len(vehicle_data))
                OfLocation(location) ==
                    LET at_location == SelectSeq(vehicle_data, LAMBDA r : r.location = location)
                        purchase == at_location[1]
                    IN IF Len(at_location) = 1 /\ Len(locations) > 3
                       THEN << FuelAnomaly(vehicle_id, purchase.timestamp, "unusual_location",
                                           purchase.location, GallonsOrZero(purchase),
                                           ShareOfCost(GallonsOrZero(purchase), 25), "medium", 600) >>
                       ELSE <<>>
            IN IF Len(vehicle_data) < 5 THEN <<>>
               ELSE Flatten([q \in 1..Len(locations) |-> OfLocation(locations[q])])
    IN IF Len(fuel_df_clean) = 0 THEN <<>>
       ELSE Flatten([i \in 1..Len(VehicleOrder) |-> OfVehicle(VehicleOrder[i])])

\* the location of a rapid_succession violation: the locations of the two
\* purchases joined by an arrow
Route(from, to) == from \o " -> " \o to

\* detect_impossible_scenarios(fuel_df)
detect_impossible_scenarios(rows) ==
    LET fuel_df_clean == DropNaT(rows)
        OfVehicle(vehicle_id) ==
            LET vehicle_data == SortByTime(RowsOfVehicle(fuel_df_clean, vehicle_id))
                OfPair(i) ==
                    LET current == vehicle_data[i]
                        next_purchase == vehicle_data[i + 1]
                        total_gallons == FloatAdd(current.gallons, next_purchase.gallons)
                    IN IF \/ IsMidnight(current.timestamp)
                          \/ IsMidnight(next_purchase.timestamp)
                       THEN <<>>
                       ELSE IF next_purchase.timestamp - current.timestamp < Hours(2)
                       THEN << FuelAnomaly(vehicle_id, next_purchase.timestamp, "rapid_succession",
                                           Route(current.location, next_purchase.location),
                                           total_gallons, ShareOfCost(total_gallons, 50),
                                           "high", 850) >>
                       ELSE <<>>
            IN Flatten([i \in 1..(Len(vehicle_data) - 1) |-> OfPair(i)])
    IN IF Len(fuel_df_clean) = 0 \/ ~has_time_data(fuel_df_clean) THEN <<>>
       ELSE Flatten([i \in 1..Len(VehicleOrder) |-> OfVehicle(VehicleOrder[i])])

\* analyze_fuel_patterns(fuel_df)['fuel_anomalies']: the detectors read the
\* table after its timestamp column has been converted
analyze_fuel_patterns(fuel) ==
    IF ~fuel.loaded \/ IsEmpty(fuel) THEN <<>>
    ELSE detect_time_anomalies(to_datetime(fuel).rows)
         \o detect_volume_anomalies(to_datetime(fuel).rows)
         \o detect_frequency_anomalies(to_datetime(fuel).rows)
         \o detect_location_anomalies(to_datetime(fuel).rows)
         \o detect_impossible_scenarios(to_datetime(fuel).rows)

\* what analyze_fuel_patterns leaves in the DataFrame it was handed: the
\* timestamp column is assigned in the caller's frame, not in a copy
fuel_df_after_analysis(fuel) ==
    IF ~fuel.loaded \/ IsEmpty(fuel) THEN fuel ELSE to_datetime(fuel)

-----------------------------------------------------------------------------
(* FleetAuditor.run_full_audit                                              *)

\* the MPG block of run_full_audit: every vehicle of the loaded fuel table
\* against the loaded GPS table
mpg_analysis(gps, fuel) ==
    LET ids == UniqueVehicles(fuel.rows, Len(fuel.rows))
    IN Flatten([i \in 1..Len(ids) |->
                   analyze_vehicle_mpg(fuel.rows, gps.rows, ids[i], get_vehicle_type(ids[i]))])

default_audit_period_days == 7

\* _calculate_audit_period_days
calculate_audit_period_days(gps, fuel, jobs) ==
    LET all_dates == (IF gps.loaded THEN TimeColumn(gps) ELSE <<>>)
                     \o (IF fuel.loaded THEN TimeColumn(fuel) ELSE <<>>)
                     \o (IF jobs.loaded THEN TimeColumn(jobs) ELSE <<>>)
    IN IF Len(all_dates) = 0 THEN default_audit_period_days
       ELSE Max2(1, DaysOf(SeqMax(all_dates, Len(all_dates))
                           - SeqMin(all_dates, Len(all_dates))) + 1)

\* max_date - min_date in _calculate_audit_period_days: a TypeError when the
\* dates of a table are text
period_raises(gps, fuel, jobs) ==
    \E table \in {gps, fuel, jobs} :
        table.loaded /\ ~IsEmpty(table) /\ table.timestamp_dtype = "object"

\* mutant of no_source_loaded: raises as soon as one source is missing
some_source_missing(gps, fuel, jobs) == ~(gps.loaded /\ fuel.loaded /\ jobs.loaded)

\* the guard of run_full_audit: not any([...]) raises ValueError
no_source_loaded(gps, fuel, jobs) == ~(gps.loaded \/ fuel.loaded \/ jobs.loaded)

\* mutant of initial_violations: the list starts from what the auditor stored
carried_violations(stored) == stored

\* all_violations = []: the list the detectors extend starts empty, whatever
\* self.violations holds from an earlier run
initial_violations(stored) == <<>>

\* run_full_audit from `all_violations = []` on, given what the fuel branch
\* taken (enhanced or basic) and the MPG analysis found: audit_results, the
\* list handed to the deduplicator, and the dict returned
audit_return(gps, fuel, jobs, oa, stored, enhanced, fuel_violations, mpg_violations, fuel_only_violations) ==
    LET all_violations == initial_violations(stored) \o fuel_violations \o mpg_violations
                          \o fuel_only_violations
        audit_results ==
            [ghost_jobs |-> detect_ghost_jobs(gps, fuel, jobs, oa),
             idle_abuse |-> detect_idle_abuse(gps),
             after_hours_driving |-> detect_after_hours_driving(gps),
             enhanced_fuel_theft |-> IF enhanced THEN fuel_violations ELSE <<>>,
             fuel_theft |-> IF enhanced THEN <<>> ELSE fuel_violations,
             mpg_analysis |-> mpg_violations,
             fuel_only_fuel_anomalies |-> fuel_only_violations]
    IN [op |-> "run_full_audit",
        raised |-> "",
        raw_violations |-> audit_results,
        consolidated_violations |-> deduplicate_violations(all_violations),
        overlap_warnings |-> oa.warnings,
        audit_period_days |-> calculate_audit_period_days(gps, fuel, jobs)]

\* what run_full_audit returns (or that it raised) with the fuel-only
\* analysis left at its default, off; `stored` is self.violations at the call.
\* raw_violations has every key; a key the code does not set holds the empty
\* list.  With a text timestamp column left in a table
\* _calculate_audit_period_days raises before anything is stored.
run_full_audit(gps, fuel, jobs, oa, stored, enable_enhanced_fuel_detection, enable_mpg_analysis) ==
    IF no_source_loaded(gps, fuel, jobs)
    THEN [op |-> "run_full_audit", raised |-> "ValueError"]
    ELSE IF period_raises(gps, fuel, jobs)
    THEN [op |-> "run_full_audit", raised |-> "TypeError"]
    ELSE audit_return(gps, fuel, jobs, oa, stored,
             fuel.loaded /\ enable_enhanced_fuel_detection,
             IF fuel.loaded /\ enable_enhanced_fuel_detection
             THEN detect_enhanced_fuel_theft(fuel, gps)
             ELSE detect_fuel_theft(gps, fuel, jobs, oa),
             IF /\ enable_mpg_analysis
                /\ fuel.loaded /\ gps.loaded
                /\ ~IsEmpty(fuel) /\ ~IsEmpty(gps)
             THEN mpg_analysis(gps, fuel)
             ELSE <<>>,
             <<>>)

\* run_full_audit(enable_fuel_only_analysis=True, ...): the fuel-only
\* analysis runs last, on self.fuel_data itself, and the audit period is
\* taken from the table as the analysis left it
run_full_audit_fuel_only(gps, fuel, jobs, oa, stored, enable_enhanced_fuel_detection, enable_mpg_analysis) ==
    IF no_source_loaded(gps, fuel, jobs)
    THEN [op |-> "run_full_audit", raised |-> "ValueError"]
    ELSE IF period_raises(gps, fuel_df_after_analysis(fuel), jobs)
    THEN [op |-> "run_full_audit", raised |-> "TypeError"]
    ELSE audit_return(gps, fuel_df_after_analysis(fuel), jobs, oa, stored,
             fuel.loaded /\ enable_enhanced_fuel_detection,
             IF fuel.loaded /\ enable_enhanced_fuel_detection
             THEN detect_enhanced_fuel_theft(fuel, gps)
             ELSE detect_fuel_theft(gps, fuel, jobs, oa),
             IF /\ enable_mpg_analysis
                /\ fuel.loaded /\ gps.loaded
                /\ ~IsEmpty(fuel) /\ ~IsEmpty(gps)
             THEN mpg_analysis(gps, fuel)
             ELSE <<>>,
             analyze_fuel_patterns(fuel))

-----------------------------------------------------------------------------
(* The auditor as a state machine: load_data, then any calls.               *)

\* self.overlap_analysis before the first load_data: no periods, no warnings
EmptyAnalysis == [has_overlaps |-> <<>>, overlap_periods |-> <<>>, warnings |-> <<>>]

MaxGpsRows == 2
MaxFuelRows == 2

\* all lists of 1..n different elements of S (a table repeats no record)
ListsUpTo(S, n) ==
    UNION {{rows \in [1..m -> S] : \A i, j \in 1..m : rows[i] = rows[j] => i = j} : m \in 1..n}

\* pings a GPS export can hold
GpsPings ==
    { [vehicle_id |-> "TRUCK-2", timestamp |-> Hours(10), pos |-> 0, speed_mph |-> 0],
      [vehicle_id |-> "TRUCK-2", timestamp |-> Hours(20), pos |-> 18, speed_mph |-> 30],
      [vehicle_id |-> "VAN-1", timestamp |-> Hours(20), pos |-> 5, speed_mph |-> 0] }

\* purchases a fuel-card export without an amount column can hold
FuelPurchases ==
    { [vehicle_id |-> "TRUCK-2", timestamp |-> Hours(8), location |-> "Depot",
       gallons |-> Num(45), amount |-> Missing],
      [vehicle_id |-> "TRUCK-2", timestamp |-> Hours(9), location |-> "Depot",
       gallons |-> Num(45), amount |-> Missing],
      [vehicle_id |-> "TRUCK-2", timestamp |-> Hours(12), location |-> " Yard",
       gallons |-> Num(2), amount |-> Missing],
      [vehicle_id |-> "TRUCK-2", timestamp |-> Hours(32), location |-> "Depot",
       gallons |-> Num(45), amount |-> Missing] }

\* scheduled jobs (timestamp is scheduled_time)
Job1 == [job_id |-> "J1", timestamp |-> Hours(11), address |-> "12 Main St", driver_id |-> "TRUCK-2"]
Job2 == [job_id |-> "J2", timestamp |-> Hours(40), address |-> "9 Elm St", driver_id |-> "VAN-1"]

GpsTables == {NoTable} \cup {Table(rows, FALSE) : rows \in ListsUpTo(GpsPings, MaxGpsRows)}
FuelTables == {NoTable} \cup {Table(rows, FALSE) : rows \in ListsUpTo(FuelPurchases, MaxFuelRows)}
JobTables == {NoTable, Table(<<Job1, Job2>>, FALSE)}

\* no audit to compare the next one with
NoAudit ==
    [valid |-> FALSE, rerun |-> FALSE, enable_enhanced_fuel_detection |-> FALSE,
     enable_mpg_analysis |-> FALSE, consolidated_violations |-> <<>>]

AuditNew ==
    /\ gps_data = NoTable
    /\ fuel_data = NoTable
    /\ job_data = NoTable
    /\ date_ranges = <<>>
    /\ overlap_analysis = EmptyAnalysis
    /\ self_violations = <<>>
    /\ ret = [op |-> "__init__"]
    /\ last_audit = NoAudit
    /\ au_pc = "new"

\* load_data(gps_df, fuel_df, job_df).  An auditor that has data is only
\* loaded again with the tables it holds (the same input once more).
LoadData ==
    /\ \E gps \in GpsTables, fuel \in FuelTables, jobs \in JobTables :
          /\ au_pc = "new" \/ (gps = gps_data /\ fuel = fuel_data /\ jobs = job_data)
          /\ gps_data' = gps
          /\ fuel_data' = fuel
          /\ job_data' = jobs
          /\ date_ranges' = analyze_date_ranges(gps, fuel, jobs)
          /\ overlap_analysis' = analyze_overlaps(analyze_date_ranges(gps, fuel, jobs))
    /\ self_violations' = <<>>
    /\ ret' = [op |-> "load_data"]
    /\ au_pc' = "loaded"
    /\ UNCHANGED last_audit
    /\ UNCHANGED <<dd_vars, fd_vars>>

\* mutant of date_ranges_after_load: the dict is updated, not started anew
date_ranges_updated(old, gps, fuel, jobs) ==
    [s \in DOMAIN old \cup DOMAIN analyze_date_ranges(gps, fuel, jobs) |->
        IF s \in DOMAIN analyze_date_ranges(gps, fuel, jobs)
        THEN analyze_date_ranges(gps, fuel, jobs)[s]
        ELSE old[s]]

\* self.date_ranges = {} and then one entry per table that has rows; `old`
\* is what the auditor held before
date_ranges_after_load(old, gps, fuel, jobs) == analyze_date_ranges(gps, fuel, jobs)

\* tables for loading an auditor a second time: at most one row each
ReloadGpsTables == {t \in GpsTables : Len(t.rows) <= 1}
ReloadFuelTables == {t \in FuelTables : Len(t.rows) <= 1}

\* load_data(gps_df, fuel_df, job_df) on an auditor in any state, with any
\* tables.  last_audit keeps what the last audit stored and is no longer an
\* audit of the loaded tables.
Reload ==
    /\ \E gps \in ReloadGpsTables, fuel \in ReloadFuelTables, jobs \in JobTables :
          /\ gps_data' = gps
          /\ fuel_data' = fuel
          /\ job_data' = jobs
          /\ date_ranges' = date_ranges_after_load(date_ranges, gps, fuel, jobs)
          /\ overlap_analysis' =
                 analyze_overlaps(date_ranges_after_load(date_ranges, gps, fuel, jobs))
    /\ self_violations' = <<>>
    /\ ret' = [op |-> "load_data"]
    /\ au_pc' = "loaded"
    /\ last_audit' = [NoAudit EXCEPT !.consolidated_violations =
                                        last_audit.consolidated_violations]
    /\ UNCHANGED <<dd_vars, fd_vars>>

\* run_full_audit(enable_enhanced_fuel_detection=e, enable_mpg_analysis=m)
RunFullAudit ==
    /\ \E e \in BOOLEAN, m \in BOOLEAN :
          /\ ret' = run_full_audit(gps_data, fuel_data, job_data, overlap_analysis,
                                   self_violations, e, m)
          /\ last_audit' = IF ret'.raised = ""
                           THEN [valid |-> TRUE,
                                 rerun |-> /\ last_audit.valid
                                           /\ last_audit.enable_enhanced_fuel_detection = e
                                           /\ last_audit.enable_mpg_analysis = m,
                                 enable_enhanced_fuel_detection |-> e,
                                 enable_mpg_analysis |-> m,
                                 consolidated_violations |-> ret'.consolidated_violations]
                           ELSE NoAudit
    /\ self_violations' = IF ret'.raised = "" THEN ret'.consolidated_violations
                          ELSE self_violations
    /\ UNCHANGED <<gps_data, fuel_data, job_data, date_ranges, overlap_analysis, au_pc>>
    /\ UNCHANGED <<dd_vars, fd_vars>>

\* run_full_audit(enable_fuel_only_analysis=True,
\*                enable_enhanced_fuel_detection=e, enable_mpg_analysis=m)
RunFullAuditFuelOnly ==
    /\ \E e \in BOOLEAN, m \in BOOLEAN :
          ret' = run_full_audit_fuel_only(gps_data, fuel_data, job_data, overlap_analysis,
                                          self_violations, e, m)
    /\ fuel_data' = IF no_source_loaded(gps_data, fuel_data, job_data) THEN fuel_data
                    ELSE fuel_df_after_analysis(fuel_data)
    /\ last_audit' = NoAudit
    /\ self_violations' = IF ret'.raised = "" THEN ret'.consolidated_violations
                          ELSE self_violations
    /\ UNCHANGED <<gps_data, job_data, date_ranges, overlap_analysis, au_pc>>
    /\ UNCHANGED <<dd_vars, fd_vars>>

\* detect_fuel_theft()
DetectFuelTheft ==
    /\ ret' = [op |-> "detect_fuel_theft",
               value |-> detect_fuel_theft(gps_data, fuel_data, job_data, overlap_analysis)]
    /\ last_audit' = NoAudit
    /\ UNCHANGED <<gps_data, fuel_data, job_data, date_ranges, overlap_analysis,
                   self_violations, au_pc>>
    /\ UNCHANGED <<dd_vars, fd_vars>>

\* get_filtered_data_for_comparison(source1, source2)
GetFilteredData ==
    /\ \E source1 \in Sources : \E source2 \in Sources \ {source1} :
          ret' = [op |-> "get_filtered_data_for_comparison",
                  source1 |-> source1,
                  source2 |-> source2,
                  value |-> get_filtered_data_for_comparison(source1, source2, gps_data,
                                fuel_data, job_data, overlap_analysis)]
    /\ last_audit' = NoAudit
    /\ UNCHANGED <<gps_data, fuel_data, job_data, date_ranges, overlap_analysis,
                   self_violations, au_pc>>
    /\ UNCHANGED <<dd_vars, fd_vars>>

NextAudit == LoadData \/ RunFullAudit \/ DetectFuelTheft \/ GetFilteredData

-----------------------------------------------------------------------------
(* detect_enhanced_fuel_theft on its own, over fuel tables of every tier.    *)

\* what a parser can leave in the gallons and amount columns
GallonValues == {NaN, Num(10), Num(45)}
AmountValues == {NaN, Num(3750), Num(30000)}
PurchaseTimes == {Hours(3), Hours(8), Hours(12), NaT}

\* rows of a table with an amount column, and of one without
PricedPurchases ==
    { [vehicle_id |-> "TRUCK-2", timestamp |-> t, location |-> "Depot",
       gallons |-> g, amount |-> a] :
        t \in PurchaseTimes, g \in GallonValues, a \in AmountValues }
UnpricedPurchases ==
    { [vehicle_id |-> "TRUCK-2", timestamp |-> t, location |-> "Depot",
       gallons |-> g, amount |-> Missing] :
        t \in PurchaseTimes, g \in GallonValues }

\* rows that carry neither gallons nor amount
TimingOnlyPurchases ==
    {r \in PricedPurchases : r.gallons = NaN /\ r.amount = NaN /\ ~IsNaT(r.timestamp)}

MaxTimingOnlyRows == 3

EnhancedFuelTables ==
    {Table(rows, TRUE) : rows \in ListsUpTo(PricedPurchases, MaxFuelRows)}
    \cup {Table(rows, FALSE) : rows \in ListsUpTo(UnpricedPurchases, MaxFuelRows)}
    \cup {Table(rows, TRUE) : rows \in ListsUpTo(TimingOnlyPurchases, MaxTimingOnlyRows)}

FuelIdle ==
    /\ fuel_df = NoTable
    /\ fuel_result = <<>>
    /\ fd_pc = "idle"

FuelInit ==
    /\ fuel_df \in EnhancedFuelTables
    /\ fuel_result = <<>>
    /\ fd_pc = "ready"

\* violations = detector.detect_enhanced_fuel_theft(fuel_df, gps_df)
DetectEnhancedFuelTheft ==
    /\ fd_pc = "ready"
    /\ \E gps \in {NoTable, Table(<<CHOOSE p \in GpsPings : p.timestamp = Hours(10)>>, FALSE)} :
          fuel_result' = detect_enhanced_fuel_theft(fuel_df, gps)
    /\ fd_pc' = "done"
    /\ UNCHANGED <<fuel_df, dd_vars, au_vars>>

\* the auditor after load_data(gps, fuel, jobs) on a new FleetAuditor
Loaded(gps, fuel, jobs) ==
    /\ gps_data = gps
    /\ fuel_data = fuel
    /\ job_data = jobs
    /\ date_ranges = analyze_date_ranges(gps, fuel, jobs)
    /\ overlap_analysis = analyze_overlaps(analyze_date_ranges(gps, fuel, jobs))
    /\ self_violations = <<>>
    /\ ret = [op |-> "load_data"]
    /\ last_audit = NoAudit
    /\ au_pc = "loaded"

\* one interval between two fill-ups of a vehicle, driven between two pings:
\* the miles between the pings and the gallons of the second fill-up
MilesDriven ==
    {0, 4, 5, 6, 7, 10, 11, 14, 15, 18, 19, 20, 21, 22, 25, 26, 34, 35, 36, 37, 48, 49, 50,
     59, 60, 61, 83, 84, 85, 139, 140, 141, 143, 144, 145, 195, 196, 197, 239, 240, 241,
     335, 336, 337}
GallonsFilled == {2, 3, 10, 40}

IntervalGps(vehicle_id, miles) ==
    Table(<< [vehicle_id |-> vehicle_id, timestamp |-> Hours(10), pos |-> 0, speed_mph |-> 30],
             [vehicle_id |-> vehicle_id, timestamp |-> Hours(18), pos |-> miles,
              speed_mph |-> 30] >>, FALSE)

IntervalFuel(vehicle_id, gallons) ==
    Table(<< [vehicle_id |-> vehicle_id, timestamp |-> Hours(8), location |-> "Depot",
              gallons |-> Num(20), amount |-> Missing],
             [vehicle_id |-> vehicle_id, timestamp |-> Hours(20), location |-> "Depot",
              gallons |-> Num(gallons), amount |-> Missing] >>, FALSE)

MpgInit ==
    \E vehicle_id \in Vehicles, miles \in MilesDriven, gallons \in GallonsFilled :
        Loaded(IntervalGps(vehicle_id, miles), IntervalFuel(vehicle_id, gallons), NoTable)

\* a vehicle's purchase history for the pattern analysis: ten purchases, one
\* a day, `spread` of them 28 gal, `spread` of them 32 gal and the others 30
HistoryGallons(spread) ==
    [i \in 1..10 |-> IF i <= spread THEN 28 ELSE IF i <= 2 * spread THEN 32 ELSE 30]

HistorySpreads == 0..5
FurtherGallons == 25..70

\* the history followed by one further purchase the day after, every amount
\* at 3.75 a gallon (priced) or not recorded (the amount column is missing)
PatternTable(spread, further, priced) ==
    Table([i \in 1..11 |->
              LET gallons == IF i <= 10 THEN HistoryGallons(spread)[i] ELSE further
              IN [vehicle_id |-> "TRUCK-2",
                  timestamp |-> Hours(HoursPerDay * (i - 1) + 8),
                  location |-> "Depot",
                  gallons |-> Num(gallons),
                  amount |-> IF priced THEN Num(gallons * avg_fuel_price) ELSE Missing]],
          priced)

PatternTables ==
    {PatternTable(spread, further, priced) :
        spread \in HistorySpreads, further \in FurtherGallons, priced \in BOOLEAN}

\* short purchase histories: up to MaxHistory purchases of one vehicle, one a
\* day, the first `low` of them 29 gal, the last `last` gal, the others 30
MaxHistory == 10
LowPurchases == 0..2
LastGallons == {30, 31, 60, 200}

ShortHistoryTable(n, low, last, priced) ==
    Table([i \in 1..n |->
              LET gallons == IF i = n THEN last ELSE IF i <= low THEN 29 ELSE 30
              IN [vehicle_id |-> "TRUCK-2",
                  timestamp |-> Hours(HoursPerDay * (i - 1) + 8),
                  location |-> "Depot",
                  gallons |-> Num(gallons),
                  amount |-> IF priced THEN Num(gallons * avg_fuel_price) ELSE Missing]],
          priced)

ShortHistoryTables ==
    {ShortHistoryTable(n, low, last, priced) :
        n \in 2..MaxHistory, low \in LowPurchases, last \in LastGallons, priced \in BOOLEAN}

ShortHistoryInit ==
    /\ fuel_df \in ShortHistoryTables
    /\ fuel_result = <<>>
    /\ fd_pc = "ready"

PatternInit ==
    /\ fuel_df \in PatternTables
    /\ fuel_result = <<>>
    /\ fd_pc = "ready"

\* two purchases of one vehicle for the rapid-refill check: Monday 08:00,
\* 09:00, 15:30, 16:00, 17:00, 18:00, 19:00, 19:30, 20:00 and Tuesday 00:30,
\* 09:30, 10:00, 10:30
RefillTimes ==
    {Hours(8), Hours(9), HoursAnd(15, 1), Hours(16), Hours(17), Hours(18), Hours(19),
     HoursAnd(19, 1), Hours(20), HoursAnd(HoursPerDay, 1), HoursAnd(HoursPerDay + 9, 1),
     Hours(HoursPerDay + 10), HoursAnd(HoursPerDay + 10, 1)}

\* gallons around 5 and around 80%, 90%, 100% and 120% of a 40-gallon tank
RefillGallons == {4, 33, 36, 37, 41, 48, 49}
RefillLocations == {"Depot", "Yard"}

\* the earlier purchase at the depot, the later one there or elsewhere
RefillTable(last_time, last_gallons, time, gallons, location) ==
    Table(<< [vehicle_id |-> "TRUCK-2", timestamp |-> last_time, location |-> "Depot",
              gallons |-> Num(last_gallons), amount |-> Missing],
             [vehicle_id |-> "TRUCK-2", timestamp |-> time, location |-> location,
              gallons |-> Num(gallons), amount |-> Missing] >>, FALSE)

RefillTables ==
    {RefillTable(last_time, last_gallons, time, gallons, location) :
        last_time \in RefillTimes, last_gallons \in RefillGallons,
        time \in RefillTimes, gallons \in RefillGallons, location \in RefillLocations}

RefillInit ==
    /\ fuel_df \in {t \in RefillTables : t.rows[1].timestamp < t.rows[2].timestamp}
    /\ fuel_result = <<>>
    /\ fd_pc = "ready"

\* a vehicle's purchases of two days for the daily check: up to
\* MaxDayPurchases on Monday, each of the same size, and up to two on Tuesday
MaxDayPurchases == 8
DayGallons == {11, 12, 19, 20, 21, 40, 41, 85}
NextDayGallons == {41, 85}

DayPurchase(day, k, gallons) ==
    [vehicle_id |-> "TRUCK-2", timestamp |-> Hours(day * HoursPerDay + 5 + k),
     location |-> "Depot", gallons |-> Num(gallons), amount |-> Missing]

DayTable(count, gallons, next_count, next_gallons) ==
    Table([k \in 1..(count + next_count) |->
              IF k <= count THEN DayPurchase(0, k, gallons)
              ELSE DayPurchase(1, k - count, next_gallons)], FALSE)

DayTables ==
    {DayTable(count, gallons, next_count, next_gallons) :
        count \in 1..MaxDayPurchases, gallons \in DayGallons,
        next_count \in 0..2, next_gallons \in NextDayGallons}

DayInit ==
    /\ fuel_df \in DayTables
    /\ fuel_result = <<>>
    /\ fd_pc = "ready"

-----------------------------------------------------------------------------
(* Specifications                                                           *)

Init == DedupInit /\ AuditNew /\ FuelIdle

Next == Report \/ Deduplicate

Spec == Init /\ [][Next]_vars

\* the deduplicator over dated and undated raw violations
NextUndated == Report \/ ReportUndated \/ Deduplicate
SpecUndated == Init /\ [][NextUndated]_vars

\* the deduplicator followed by its financial summary
NextSummary == Report \/ Deduplicate \/ GenerateFinancialSummary
SpecSummary == Init /\ [][NextSummary]_vars

\* _are_violations_related on its own, over pairs of rows
InitRelated == RelatedInit /\ AuditNew /\ FuelIdle
NextRelated == AreViolationsRelated
SpecRelated == InitRelated /\ [][NextRelated]_vars

SpecAudit == Init /\ [][NextAudit]_vars

\* one auditor loaded and audited again and again
NextReload == Reload \/ RunFullAudit \/ RunFullAuditFuelOnly
SpecReload == Init /\ [][NextReload]_vars

-----------------------------------------------------------------------------
(* detect_after_hours_driving on its own, over GPS exports with pings       *)
(* around the business hours, on a working day and at the weekend.          *)

MaxPingRows == 3

\* Monday 06:30, 07:00, 18:00, 18:30 and 19:00, Tuesday 05:00, Saturday 10:00
PingTimes ==
    {HoursAnd(6, 1), Hours(7), Hours(18), HoursAnd(18, 1), Hours(19), Hours(HoursPerDay + 5),
     Hours(5 * HoursPerDay + 10)}

AfterHoursPings ==
    {[vehicle_id |-> v, timestamp |-> t, pos |-> 0, speed_mph |-> 30] :
        v \in Vehicles, t \in PingTimes}

AfterHoursTables == {Table(rows, FALSE) : rows \in ListsUpTo(AfterHoursPings, MaxPingRows)}

AfterHoursInit == \E gps \in AfterHoursTables : Loaded(gps, NoTable, NoTable)

\* detect_after_hours_driving() with the default start_hour and end_hour
DetectAfterHoursDriving ==
    /\ ret' = [op |-> "detect_after_hours_driving",
               value |-> detect_after_hours_driving(gps_data)]
    /\ last_audit' = NoAudit
    /\ UNCHANGED <<gps_data, fuel_data, job_data, date_ranges, overlap_analysis,
                   self_violations, au_pc>>
    /\ UNCHANGED <<dd_vars, fd_vars>>

-----------------------------------------------------------------------------
(* detect_idle_abuse on its own, over the speed profiles of a vehicle.      *)

MaxIdleSlots == 5

\* speeds at, below and above max_speed_mph; NoPing: no ping in the slot
NoPing == -1
SlotSpeeds == {NoPing, 0, 3, 4}

\* the pings of TRUCK-2, one tick apart from 10:00, in ascending file order
RECURSIVE ProfilePings(_, _)
ProfilePings(profile, k) ==
    IF k = 0 THEN <<>>
    ELSE ProfilePings(profile, k - 1)
         \o (IF profile[k] = NoPing THEN <<>>
             ELSE << [vehicle_id |-> "TRUCK-2", timestamp |-> HoursAnd(10, k - 1), pos |-> 0,
                      speed_mph |-> profile[k]] >>)

\* two pings of VAN-1 standing still for an hour
VanPings ==
    << [vehicle_id |-> "VAN-1", timestamp |-> Hours(10), pos |-> 5, speed_mph |-> 0],
       [vehicle_id |-> "VAN-1", timestamp |-> Hours(11), pos |-> 5, speed_mph |-> 0] >>

\* a GPS export: the pings of a profile in ascending or descending file
\* order, followed or not by the pings of the van
IdleTables ==
    {Table((IF descending THEN Reverse(ProfilePings(profile, MaxIdleSlots))
            ELSE ProfilePings(profile, MaxIdleSlots))
           \o (IF van THEN VanPings ELSE <<>>), FALSE) :
        profile \in [1..MaxIdleSlots -> SlotSpeeds], descending \in BOOLEAN, van \in BOOLEAN}

IdleInit == \E gps \in {t \in IdleTables : Len(t.rows) > 0} : Loaded(gps, NoTable, NoTable)

\* the min_idle_minutes detect_idle_abuse is called with
IdleMinutes == {10, 45, 60}

\* detect_idle_abuse(min_idle_minutes) with the default max_speed_mph
DetectIdleAbuse ==
    /\ \E min_minutes \in IdleMinutes :
          ret' = [op |-> "detect_idle_abuse",
                  min_idle_minutes |-> min_minutes,
                  value |-> IF ~gps_data.loaded THEN <<>>
                            ELSE detect_idle_periods(gps_data.rows, min_minutes, max_speed_mph)]
    /\ last_audit' = NoAudit
    /\ UNCHANGED <<gps_data, fuel_data, job_data, date_ranges, overlap_analysis,
                   self_violations, au_pc>>
    /\ UNCHANGED <<dd_vars, fd_vars>>

-----------------------------------------------------------------------------
(* Audits of a fuel-card export alone, with and without the fuel-only      *)
(* analysis.                                                                *)

MaxFuelOnlyRows == 2

\* Monday 08:00 and 09:00, Monday 23:00, Tuesday 00:00, Saturday 10:00
FuelOnlyTimes == {Hours(8), Hours(9), Hours(23), Hours(24), Hours(130)}

FuelOnlyPurchases ==
    { [vehicle_id |-> "TRUCK-2", timestamp |-> t, location |-> "Depot",
       gallons |-> Num(20), amount |-> Missing] : t \in FuelOnlyTimes }
    \cup { [vehicle_id |-> "VAN-1", timestamp |-> Hours(9), location |-> "Yard",
            gallons |-> Num(40), amount |-> Missing] }

\* the export as the parser hands it over: timestamps converted, or left as
\* the text of the file
FuelOnlyTables ==
    UNION {{Table(rows, FALSE), TextTable(rows, FALSE)} :
              rows \in ListsUpTo(FuelOnlyPurchases, MaxFuelOnlyRows)}

FuelOnlyInit == \E fuel \in FuelOnlyTables : Loaded(NoTable, fuel, NoTable)

InitFuelOnly == DedupInit /\ FuelOnlyInit /\ FuelIdle
NextFuelOnly == RunFullAudit \/ RunFullAuditFuelOnly
SpecFuelOnly == InitFuelOnly /\ [][NextFuelOnly]_vars

InitIdle == DedupInit /\ IdleInit /\ FuelIdle
NextIdle == DetectIdleAbuse
SpecIdle == InitIdle /\ [][NextIdle]_vars

InitAfterHours == DedupInit /\ AfterHoursInit /\ FuelIdle
NextAfterHours == DetectAfterHoursDriving
SpecAfterHours == InitAfterHours /\ [][NextAfterHours]_vars

InitFuel == DedupInit /\ AuditNew /\ FuelInit

NextFuel == DetectEnhancedFuelTheft

SpecFuel == InitFuel /\ [][NextFuel]_vars

InitPattern == DedupInit /\ AuditNew /\ PatternInit

InitMpg == DedupInit /\ MpgInit /\ FuelIdle

NextMpg == RunFullAudit

SpecMpg == InitMpg /\ [][NextMpg]_vars

SpecPattern == InitPattern /\ [][NextFuel]_vars

InitShortHistory == DedupInit /\ AuditNew /\ ShortHistoryInit
SpecShortHistory == InitShortHistory /\ [][NextFuel]_vars

InitDay == DedupInit /\ AuditNew /\ DayInit
SpecDay == InitDay /\ [][NextFuel]_vars

InitRefill == DedupInit /\ AuditNew /\ RefillInit
SpecRefill == InitRefill /\ [][NextFuel]_vars

-----------------------------------------------------------------------------
(* Claims about the deduplicator (checked under Spec).                     *)

Done == dd_pc = "done"

\* the rows (DataFrame indices of raw violations) merged into an incident
Rows(incident) == {incident.members[m].row : m \in 1..Len(incident.members)}

Related(i, j) == are_violations_related(violations[i], violations[j])

\* what a raw violation contributes to a loss total: its estimated_loss, or 0
\* when it carries no such field
RawLoss(i) ==
    IF violations[i].estimated_loss.kind = "num" THEN violations[i].estimated_loss.val ELSE 0

RECURSIVE SumRawLoss(_)
SumRawLoss(S) ==
    IF S = {} THEN 0
    ELSE LET i == CHOOSE x \in S : TRUE IN RawLoss(i) + SumRawLoss(S \ {i})

SeverityOrdinal(sev) == IF sev = "high" THEN 3 ELSE IF sev = "medium" THEN 2 ELSE 1

\* C1: grouping is the transitive closure of the pairwise relation: whenever
\* A is related to B and B to C, one consolidated incident holds A, B and C.
C1_GroupingIsTransitive ==
    Done =>
        \A i, j, k \in 1..Len(violations) :
            (Related(i, j) /\ Related(j, k)) =>
                \E n \in 1..Len(consolidated_violations) :
                    {i, j, k} \subseteq Rows(consolidated_violations[n])

\* C2: the returned list is sorted descending by (severity ordinal,
\* total_estimated_loss): of two adjacent incidents the first has the higher
\* severity, or the same severity and a total loss at least as large.  (Two
\* totals of which one is NaN are not ordered, and are let through here.)
C2_SortedBySeverityThenLossDescending ==
    Done =>
        \A n \in 1..(Len(consolidated_violations) - 1) :
            LET x == consolidated_violations[n]
                y == consolidated_violations[n + 1]
            IN \/ SeverityOrdinal(x.severity) > SeverityOrdinal(y.severity)
               \/ /\ SeverityOrdinal(x.severity) = SeverityOrdinal(y.severity)
                  /\ \/ x.total_estimated_loss.kind = "nan"
                     \/ y.total_estimated_loss.kind = "nan"
                     \/ x.total_estimated_loss.val >= y.total_estimated_loss.val

\* C3: every incident's total_estimated_loss is the sum of estimated_loss over
\* the raw violations merged into it, a violation without the field counting 0.
C3_TotalLossIsSumOfMembers ==
    Done =>
        \A n \in 1..Len(consolidated_violations) :
            consolidated_violations[n].total_estimated_loss
                = Num(SumRawLoss(Rows(consolidated_violations[n])))

\* C4: every incident's confidence is in [0,1]; with more than one member it is
\* min(0.99, max member confidence + 0.1), with one member that member's.
C4_ConfidenceRule ==
    Done =>
        \A n \in 1..Len(consolidated_violations) :
            LET x == consolidated_violations[n]
                confs == {violations[i].confidence : i \in Rows(x)}
                top == CHOOSE c \in confs : \A d \in confs : d <= c
            IN /\ x.confidence >= 0
               /\ x.confidence <= 1000
               /\ Cardinality(Rows(x)) > 1 =>
                     x.confidence = (IF top + 100 < 990 THEN top + 100 ELSE 990)
               /\ Cardinality(Rows(x)) = 1 => x.confidence = top

\* an incident of two members whose boosted confidence is capped at 0.99 next
\* to a single-member incident; and an incident whose boost stays below the cap
C4_Witness ==
    /\ Done
    /\ \E n \in 1..Len(consolidated_violations) :
          /\ Cardinality(Rows(consolidated_violations[n])) = 2
          /\ consolidated_violations[n].confidence = 990
    /\ \E n \in 1..Len(consolidated_violations) :
          /\ Cardinality(Rows(consolidated_violations[n])) = 1
          /\ consolidated_violations[n].confidence = 500

C4_WitnessBelowCap ==
    /\ Done
    /\ \E n \in 1..Len(consolidated_violations) :
          /\ Cardinality(Rows(consolidated_violations[n])) > 1
          /\ consolidated_violations[n].confidence = 850

\* C5: every incident's severity is the maximum of its members' severities
\* under low < medium < high.
C5_SeverityIsMaxOfMembers ==
    Done =>
        \A n \in 1..Len(consolidated_violations) :
            LET x == consolidated_violations[n]
            IN /\ \E i \in Rows(x) : violations[i].severity = x.severity
               /\ \A i \in Rows(x) :
                     SeverityOrdinal(violations[i].severity) <= SeverityOrdinal(x.severity)

\* an incident merging a low and a medium member: medium wins
C5_Witness ==
    /\ Done
    /\ \E n \in 1..Len(consolidated_violations) :
          LET x == consolidated_violations[n]
          IN /\ x.severity = "medium"
             /\ \E i, j \in Rows(x) :
                   violations[i].severity = "low" /\ violations[j].severity = "medium"

-----------------------------------------------------------------------------
(* Claims about the auditor (checked under SpecAudit).                      *)

TimesOf(table) == {table.rows[k].timestamp : k \in 1..Len(table.rows)}

\* both tables are loaded with rows, and every timestamp of one lies before
\* every timestamp of the other
Disjoint(a, b) ==
    /\ a.loaded /\ b.loaded
    /\ TimesOf(a) # {} /\ TimesOf(b) # {}
    /\ \/ \A x \in TimesOf(a), y \in TimesOf(b) : x < y
       \/ \A x \in TimesOf(a), y \in TimesOf(b) : y < x

\* the recorded analysis warns that fuel and GPS do not overlap
NoOverlapWarned(warnings) ==
    \E k \in 1..Len(warnings) :
        /\ warnings[k].type = "no_overlap"
        /\ {warnings[k].sources[1], warnings[k].sources[2]} = {"fuel", "gps"}

MpgMethods == {"fuel_dumping_mpg", "odometer_fraud_mpg", "excessive_consumption_mpg",
               "idle_refill_mpg"}

Audited == ret.op = "run_full_audit"

\* C6: when the loaded fuel and GPS tables have no temporal overlap,
\* run_full_audit returns without raising, reports a no_overlap warning for the
\* pair, and neither the GPS-proximity fuel-theft check nor the MPG analysis
\* contributes a violation to raw_violations or to consolidated_violations.
C6_NoOverlapNoCrossSourceViolations ==
    (Audited /\ Disjoint(fuel_data, gps_data)) =>
        /\ ret.raised = ""
        /\ NoOverlapWarned(ret.overlap_warnings)
        /\ ret.raw_violations.fuel_theft = <<>>
        /\ ret.raw_violations.mpg_analysis = <<>>
        /\ \A n \in 1..Len(ret.consolidated_violations) :
              \A m \in 1..Len(ret.consolidated_violations[n].members) :
                  ret.consolidated_violations[n].members[m].detection_method \notin MpgMethods

\* C7: after load_data of a fuel table and a GPS table with disjoint date
\* ranges, the overlap analysis holds a no_overlap warning naming fuel and gps
\* and no overlap period for the pair, and detect_fuel_theft returns the empty
\* list.
C7_DisjointFuelGps ==
    (au_pc = "loaded" /\ Disjoint(fuel_data, gps_data)) =>
        /\ NoOverlapWarned(overlap_analysis.warnings)
        /\ <<"gps", "fuel">> \notin DOMAIN overlap_analysis.overlap_periods
        /\ <<"fuel", "gps">> \notin DOMAIN overlap_analysis.overlap_periods
        /\ ret.op = "detect_fuel_theft" => ret.value = <<>>

\* detect_fuel_theft has returned on disjoint fuel and GPS tables
C7_Witness ==
    /\ au_pc = "loaded"
    /\ Disjoint(fuel_data, gps_data)
    /\ ret.op = "detect_fuel_theft"
    /\ ret.value = <<>>

\* the pair's overlap window [max of the starts, min of the ends], as the set
\* of the timestamps in it; empty when a table is missing or they are disjoint
Window(a, b) ==
    IF ~a.loaded \/ ~b.loaded \/ TimesOf(a) = {} \/ TimesOf(b) = {} THEN {}
    ELSE {t \in 0..(CHOOSE m \in TimesOf(a) \cup TimesOf(b) :
                        \A x \in TimesOf(a) \cup TimesOf(b) : x <= m) :
             /\ \E x \in TimesOf(a) : x <= t
             /\ \E x \in TimesOf(b) : x <= t
             /\ \E x \in TimesOf(a) : t <= x
             /\ \E x \in TimesOf(b) : t <= x}

RowsInWindow(table, window) == SelectSeq(table.rows, LAMBDA r : r.timestamp \in window)

\* C8: get_filtered_data_for_comparison(a, b) returns for each of the two
\* sources exactly the rows of its table whose timestamp lies in the pair's
\* overlap window, two empty tables when there is no overlap, and for (b, a)
\* the same two tables swapped.
C8_FilteredToOverlapWindow ==
    ret.op = "get_filtered_data_for_comparison" =>
        LET a == DataOf(ret.source1, gps_data, fuel_data, job_data)
            b == DataOf(ret.source2, gps_data, fuel_data, job_data)
            swapped == get_filtered_data_for_comparison(ret.source2, ret.source1, gps_data,
                           fuel_data, job_data, overlap_analysis)
        IN /\ ret.value[1] = RowsInWindow(a, Window(a, b))
           /\ ret.value[2] = RowsInWindow(b, Window(a, b))
           /\ Window(a, b) = {} => ret.value = << <<>>, <<>> >>
           /\ swapped = <<ret.value[2], ret.value[1]>>

\* a call for (fuel, gps), the order the overlap is not stored under, that
\* keeps a fuel row and drops another
C8_Witness ==
    /\ ret.op = "get_filtered_data_for_comparison"
    /\ ret.source1 = "fuel"
    /\ ret.source2 = "gps"
    /\ Len(ret.value[1]) > 0
    /\ Len(ret.value[1]) < Len(fuel_data.rows)
    /\ Len(ret.value[2]) > 0

\* a call for a pair without overlap
C8_WitnessNoOverlap ==
    /\ ret.op = "get_filtered_data_for_comparison"
    /\ Disjoint(DataOf(ret.source1, gps_data, fuel_data, job_data),
                DataOf(ret.source2, gps_data, fuel_data, job_data))
    /\ ret.value = << <<>>, <<>> >>

C9_WitnessRaises ==
    /\ Audited
    /\ ret.raised = "ValueError"
    /\ au_pc = "new"

-----------------------------------------------------------------------------
(* Claims about detect_enhanced_fuel_theft (checked under SpecFuel).         *)

\* the tier of a fuel table by what is populated in it
PopulatedTier(table) ==
    LET has_amount == \E k \in 1..Len(table.rows) : table.rows[k].amount.kind = "num"
        has_gallons == \E k \in 1..Len(table.rows) : table.rows[k].gallons.kind = "num"
    IN IF has_amount /\ has_gallons THEN 1
       ELSE IF has_amount THEN 2
       ELSE IF has_gallons THEN 3
       ELSE 4

TierMultiplier(tier) == IF tier = 1 THEN 1000 ELSE IF tier = 2 THEN 800
                        ELSE IF tier = 3 THEN 700 ELSE 500

\* C10: every violation detect_enhanced_fuel_theft returns has its
\* sub-detector's confidence multiplied by the multiplier of the table's tier
\* (1.0, 0.8, 0.7, 0.5 for tiers 1 to 4), the tier being 1 with amount and
\* gallons populated, 2 with amount only, 3 with gallons but no amount, 4 with
\* neither.
C10_ConfidenceTimesTierMultiplier ==
    fd_pc = "done" =>
        \A k \in 1..Len(fuel_result) :
            /\ fuel_result[k].data_tier = PopulatedTier(fuel_df)
            /\ fuel_result[k].confidence * 1000
                  = fuel_result[k].base_confidence * TierMultiplier(PopulatedTier(fuel_df))

\* the violations of one detection method in what the detector returned
ResultsOf(method) == {k \in 1..Len(fuel_result) : fuel_result[k].detection_method = method}

\* C11: for Tier 2 data (amount populated, gallons absent) a purchase whose
\* estimated gallons, amount / avg_fuel_price, are more than 1.6 tank
\* capacities is reported as an estimated_volume_excess violation.
C11_Tier2EstimatedVolumeExcess ==
    (fd_pc = "done" /\ PopulatedTier(fuel_df) = 2) =>
        \A j \in 1..Len(fuel_df.rows) :
            LET purchase == fuel_df.rows[j]
            IN (purchase.amount.kind = "num"
                /\ 10 * purchase.amount.val > 16 * default_tank_capacity * avg_fuel_price) =>
                   \E k \in ResultsOf("estimated_volume_excess") :
                       /\ fuel_result[k].vehicle_id = purchase.vehicle_id
                       /\ fuel_result[k].timestamp = purchase.timestamp

\* a time of day before 05:00 or after 23:00
OutsideFuelingHours(t) ==
    LET time_of_day == t % (HoursPerDay * TicksPerHour)
    IN ~IsNaT(t) /\ (time_of_day < Hours(5) \/ time_of_day > Hours(23))

\* C12: for Tier 4 data (neither amount nor gallons populated) a vehicle with
\* more than 2 purchases on one day yields a frequency_anomaly violation and
\* a purchase outside 05:00-23:00 yields a timing_anomaly violation, both of
\* low severity.
C12_Tier4TimingAndFrequency ==
    (fd_pc = "done" /\ PopulatedTier(fuel_df) = 4) =>
        /\ \A j \in 1..Len(fuel_df.rows) :
              LET purchase == fuel_df.rows[j]
                  same_day == {i \in 1..Len(fuel_df.rows) :
                                  /\ fuel_df.rows[i].vehicle_id = purchase.vehicle_id
                                  /\ ~IsNaT(fuel_df.rows[i].timestamp)
                                  /\ ~IsNaT(purchase.timestamp)
                                  /\ DateOf(fuel_df.rows[i].timestamp) = DateOf(purchase.timestamp)}
              IN /\ Cardinality(same_day) > 2 =>
                       \E k \in ResultsOf("frequency_anomaly") :
                           /\ fuel_result[k].vehicle_id = purchase.vehicle_id
                           /\ fuel_result[k].severity = "low"
                 /\ OutsideFuelingHours(purchase.timestamp) =>
                       \E k \in ResultsOf("timing_anomaly") :
                           /\ fuel_result[k].vehicle_id = purchase.vehicle_id
                           /\ fuel_result[k].timestamp = purchase.timestamp
                           /\ fuel_result[k].severity = "low"

\* the purchases of the table that are the purchase a violation is about
PurchasesLike(v) ==
    {j \in 1..Len(fuel_df.rows) :
        /\ fuel_df.rows[j].vehicle_id = v.vehicle_id
        /\ fuel_df.rows[j].timestamp = v.timestamp
        /\ fuel_df.rows[j].location = v.location
        /\ fuel_df.rows[j].gallons = v.gallons}

\* C13: for Tier 1 data every purchase of more than the tank capacity (40
\* gal) yields exactly one volume_excess violation, of severity high and
\* confidence 0.95, and no purchase of at most the capacity yields one.
C13_VolumeExcessPerPurchase ==
    (fd_pc = "done" /\ PopulatedTier(fuel_df) = 1) =>
        /\ \A j \in 1..Len(fuel_df.rows) :
              LET purchase == fuel_df.rows[j]
                  reported == {k \in ResultsOf("volume_excess") : j \in PurchasesLike(fuel_result[k])}
              IN IF purchase.gallons.kind = "num" /\ purchase.gallons.val > default_tank_capacity
                 THEN Cardinality(reported)
                         = Cardinality({i \in 1..Len(fuel_df.rows) :
                                           /\ fuel_df.rows[i].vehicle_id = purchase.vehicle_id
                                           /\ fuel_df.rows[i].timestamp = purchase.timestamp
                                           /\ fuel_df.rows[i].location = purchase.location
                                           /\ fuel_df.rows[i].gallons = purchase.gallons})
                 ELSE reported = {}
        /\ \A k \in ResultsOf("volume_excess") :
              /\ PurchasesLike(fuel_result[k]) # {}
              /\ fuel_result[k].severity = "high"
              /\ fuel_result[k].confidence = 950

\* a Tier 1 table with a 45 gal and a 10 gal purchase, and one volume_excess
C13_Witness ==
    /\ fd_pc = "done"
    /\ PopulatedTier(fuel_df) = 1
    /\ \E i, j \in 1..Len(fuel_df.rows) :
          /\ fuel_df.rows[i].gallons = Num(45)
          /\ fuel_df.rows[j].gallons = Num(10)
    /\ Cardinality(ResultsOf("volume_excess")) = 1

-----------------------------------------------------------------------------
(* Claims about the pattern analysis (checked under SpecPattern).            *)

\* the gallons of the ten historical purchases and of the further one
History == [i \in 1..10 |-> fuel_df.rows[i].gallons.val]
Further == fuel_df.rows[11]

\* the history averages 30 gal, every purchase within 2 gal of it, with a
\* sample standard deviation of at least 1.5 gal (9 * variance >= 20.25)
AveragesThirtySpreadTwo ==
    /\ SumSeq(History, 10) = 300
    /\ \A i \in 1..10 : History[i] >= 28 /\ History[i] <= 32
    /\ 10 * SumSquares(History, 10) - 300 * 300 >= 10 * 21

FurtherFlagged ==
    \E k \in ResultsOf("pattern_deviation") :
        /\ fuel_result[k].timestamp = Further.timestamp
        /\ fuel_result[k].confidence = 700

\* C14: after 10 historical purchases averaging 30 gal with a spread of about
\* 2 gal, amounts priced uniformly, a further purchase of 60 gal is flagged
\* as pattern_deviation with confidence 0.70 and one of 31 gal is not flagged.
C14_PatternDeviation ==
    (fd_pc = "done" /\ AveragesThirtySpreadTwo) =>
        /\ Further.gallons = Num(60) => FurtherFlagged
        /\ Further.gallons = Num(31) =>
              ~\E k \in ResultsOf("pattern_deviation") :
                   fuel_result[k].timestamp = Further.timestamp

-----------------------------------------------------------------------------
(* Claims about the MPG classifier (checked under SpecMpg).                  *)

\* the interval of the loaded tables: the vehicle, the miles between its two
\* pings, the gallons of the second fill-up and the type's minimum MPG
IntervalVehicle == fuel_data.rows[2].vehicle_id
IntervalMiles == gps_data.rows[2].pos - gps_data.rows[1].pos
IntervalGallons == fuel_data.rows[2].gallons.val
MinExpected == mpg_expectations(get_vehicle_type(IntervalVehicle)).min

\* an audit with the MPG analysis enabled has returned
MpgAnalysed == Audited /\ last_audit.valid /\ last_audit.enable_mpg_analysis

\* the MPG analysis returned exactly this one outcome for the second fill-up
OneOutcome(method, severity, confidence) ==
    /\ Len(ret.raw_violations.mpg_analysis) = 1
    /\ ret.raw_violations.mpg_analysis[1].vehicle_id = IntervalVehicle
    /\ ret.raw_violations.mpg_analysis[1].timestamp = fuel_data.rows[2].timestamp
    /\ ret.raw_violations.mpg_analysis[1].detection_method = method
    /\ ret.raw_violations.mpg_analysis[1].severity = severity
    /\ ret.raw_violations.mpg_analysis[1].confidence = confidence

\* C15: an interval with at least 3 gal consumed and at least 5 miles driven
\* gets exactly one outcome by actual_mpg = distance / gallons against the
\* type's min_expected: fuel_dumping_mpg (high, 0.95) below 0.3 * min, else
\* odometer_fraud_mpg (high, 0.90) below 0.5 * min, else
\* excessive_consumption_mpg (medium, 0.75) below 0.7 * min, else nothing; a
\* truck with 50 miles and 40 gallons gets fuel_dumping_mpg, high, 0.95.
C15_MpgOutcome ==
    (MpgAnalysed /\ IntervalGallons >= 3 /\ IntervalMiles >= 5) =>
        /\ IF 10 * IntervalMiles < 3 * MinExpected * IntervalGallons
           THEN OneOutcome("fuel_dumping_mpg", "high", 950)
           ELSE IF 10 * IntervalMiles < 5 * MinExpected * IntervalGallons
           THEN OneOutcome("odometer_fraud_mpg", "high", 900)
           ELSE IF 10 * IntervalMiles < 7 * MinExpected * IntervalGallons
           THEN OneOutcome("excessive_consumption_mpg", "medium", 750)
           ELSE ret.raw_violations.mpg_analysis = <<>>
        /\ (IntervalVehicle = "TRUCK-2" /\ IntervalMiles = 50 /\ IntervalGallons = 40) =>
              OneOutcome("fuel_dumping_mpg", "high", 950)

\* the truck that drove 50 miles on 40 gallons has been classified
C15_Witness ==
    /\ MpgAnalysed
    /\ IntervalVehicle = "TRUCK-2" /\ IntervalMiles = 50 /\ IntervalGallons = 40
    /\ OneOutcome("fuel_dumping_mpg", "high", 950)

\* an interval just under half the minimum MPG, classified as odometer fraud
C15_WitnessOdometerFraud ==
    /\ MpgAnalysed
    /\ IntervalVehicle = "VAN-1" /\ IntervalMiles = 59 /\ IntervalGallons = 10
    /\ OneOutcome("odometer_fraud_mpg", "high", 900)

-----------------------------------------------------------------------------
(* Claims about what run_full_audit hands to the deduplicator (checked      *)
(* under SpecAudit).                                                        *)

\* the raw violations the audit extended all_violations with, in order
HandedToDeduplicator ==
    ret.raw_violations.enhanced_fuel_theft \o ret.raw_violations.fuel_theft
    \o ret.raw_violations.mpg_analysis

\* C16: every raw violation a detector hands to the deduplicator in
\* run_full_audit carries an estimated_loss that is >= 0 and a severity that
\* is low, medium or high.
C16_RawViolationsCarryLossAndSeverity ==
    (Audited /\ ret.raised = "") =>
        \A k \in 1..Len(HandedToDeduplicator) :
            /\ HandedToDeduplicator[k].estimated_loss.kind = "num"
            /\ HandedToDeduplicator[k].estimated_loss.val >= 0
            /\ HandedToDeduplicator[k].severity \in {"low", "medium", "high"}

\* run_full_audit returns once more, with the flags of the audit before it
RerunSame ==
    (/\ last_audit.valid
     /\ last_audit'.valid
     /\ last_audit'.rerun
     /\ ret'.op = "run_full_audit") =>
        /\ ret'.consolidated_violations = last_audit.consolidated_violations
        /\ last_audit'.consolidated_violations = last_audit.consolidated_violations

\* C17: running load_data then run_full_audit twice on identical input
\* tables, or run_full_audit twice in a row on the same auditor, yields
\* identical consolidated_violations: same incidents, values and order.
C17_RerunIdentical == [][RerunSame]_vars

\* a repeated audit has returned incidents, the same as the audit before it
C17_Witness ==
    /\ Audited
    /\ last_audit.valid
    /\ last_audit.rerun
    /\ Len(ret.consolidated_violations) > 0
    /\ ret.consolidated_violations = last_audit.consolidated_violations
    /\ self_violations = ret.consolidated_violations

\* the detectors that report under raw_violations
RawDetectors ==
    {"ghost_jobs", "idle_abuse", "after_hours_driving", "enhanced_fuel_theft", "fuel_theft",
     "mpg_analysis"}

\* the row a raw violation has in the list handed to the deduplicator, 0 when
\* the audit did not extend the list with its detector's violations
RowHanded(detector, i) ==
    CASE detector = "enhanced_fuel_theft" -> i
      [] detector = "fuel_theft" -> Len(ret.raw_violations.enhanced_fuel_theft) + i
      [] detector = "mpg_analysis" -> Len(ret.raw_violations.enhanced_fuel_theft)
                                       + Len(ret.raw_violations.fuel_theft) + i
      [] OTHER -> 0

\* the incidents that hold the i-th raw violation of a detector as a member
IncidentsHolding(detector, i) ==
    {c \in 1..Len(ret.consolidated_violations) :
        /\ RowHanded(detector, i) > 0
        /\ RowHanded(detector, i) \in Rows(ret.consolidated_violations[c])}

\* C18: every raw violation run_full_audit reports under raw_violations, from
\* any detector (fuel theft, MPG, idle, after hours, ghost job), is a member
\* of exactly one incident of consolidated_violations.
C18_EveryRawViolationInOneIncident ==
    (Audited /\ ret.raised = "") =>
        \A detector \in RawDetectors :
            \A i \in 1..Len(ret.raw_violations[detector]) :
                Cardinality(IncidentsHolding(detector, i)) = 1

-----------------------------------------------------------------------------
(* Purchases without a timestamp (under SpecFuel).                          *)

\* the violations of the result that come from a purchase whose timestamp is
\* NaT: a violation carries the timestamp of its purchase
FromUndatedPurchase == {k \in 1..Len(fuel_result) : IsNaT(fuel_result[k].timestamp)}

\* C19: a fuel record whose timestamp is null or unparseable produces no raw
\* violation from the fuel-theft sub-detectors and never causes two
\* violations to be grouped into one incident.
C19_UndatedPurchaseExcluded ==
    fd_pc = "done" =>
        /\ FromUndatedPurchase = {}
        /\ \A k \in FromUndatedPurchase : \A j \in 1..Len(fuel_result) :
               j # k => ~are_violations_related(ToFrame(fuel_result)[k], ToFrame(fuel_result)[j])

-----------------------------------------------------------------------------
(* After-hours driving (under SpecAfterHours).                              *)

\* the time of day of a timestamp, in ticks since midnight
TimeOfDay(t) == t % (HoursPerDay * TicksPerHour)

\* a ping outside 07:00-18:00 or on a Saturday or Sunday
OutsideBusinessHours(t) ==
    \/ WeekdayOf(t) >= 5
    \/ TimeOfDay(t) < Hours(business_start_hour)
    \/ TimeOfDay(t) > Hours(business_end_hour)

\* the timestamps of the such pings of a vehicle on a calendar day
PingsOutside(vehicle_id, date) ==
    {gps_data.rows[k].timestamp : k \in {j \in 1..Len(gps_data.rows) :
        /\ gps_data.rows[j].vehicle_id = vehicle_id
        /\ DateOf(gps_data.rows[j].timestamp) = date
        /\ OutsideBusinessHours(gps_data.rows[j].timestamp)}}

\* the violations of the result for a vehicle and a calendar day
ViolationsOf(vehicle_id, date) ==
    {i \in 1..Len(ret.value) : ret.value[i].vehicle_id = vehicle_id /\ ret.value[i].date = date}

\* C20: detect_after_hours_driving with the default hours counts a ping as
\* after hours iff its time of day is outside 07:00-18:00 or it falls on a
\* Saturday or Sunday, and emits exactly one violation per vehicle and
\* calendar day that has such a ping, with total_records the number of such
\* pings and first and last times their minimum and maximum timestamps.
C20_AfterHoursPerVehicleDay ==
    ret.op = "detect_after_hours_driving" =>
        \A vehicle_id \in Vehicles : \A date \in 0..(DaysPerWeek - 1) :
            LET pings == PingsOutside(vehicle_id, date)
            IN IF pings = {}
               THEN ViolationsOf(vehicle_id, date) = {}
               ELSE /\ Cardinality(ViolationsOf(vehicle_id, date)) = 1
                    /\ \A i \in ViolationsOf(vehicle_id, date) :
                          /\ ret.value[i].total_records = Cardinality(pings)
                          /\ \A t \in pings : ret.value[i].first_violation_time <= t
                          /\ \A t \in pings : ret.value[i].last_violation_time >= t
                          /\ ret.value[i].first_violation_time \in pings
                          /\ ret.value[i].last_violation_time \in pings

-----------------------------------------------------------------------------
(* The financial summary (under SpecSummary).                               *)

\* generate_financial_summary has returned a summary of a non-empty incident
\* list for a period of at least one day
Summarised ==
    /\ financial_summary.called
    /\ ~financial_summary.value.empty
    /\ financial_summary.time_period_days > 0

\* the sum of total_estimated_loss over the incidents of a vehicle
RECURSIVE LossOfVehicle(_, _)
LossOfVehicle(vehicle_id, k) ==
    IF k = 0 THEN Num(0)
    ELSE IF consolidated_violations[k].vehicle_id = vehicle_id
    THEN FloatAdd(LossOfVehicle(vehicle_id, k - 1),
                  DictGet(consolidated_violations[k].total_estimated_loss, 0))
    ELSE LossOfVehicle(vehicle_id, k - 1)

\* the sum of the vehicles' total_loss, and of their violation_count
RECURSIVE SumOfVehicleLosses(_, _)
SumOfVehicleLosses(summary, k) ==
    IF k = 0 THEN Num(0)
    ELSE FloatAdd(SumOfVehicleLosses(summary, k - 1),
                  summary.vehicle_summaries[summary.vehicle_order[k]].total_loss)

RECURSIVE SumOfViolationCounts(_, _)
SumOfViolationCounts(summary, k) ==
    IF k = 0 THEN 0
    ELSE SumOfViolationCounts(summary, k - 1)
         + summary.vehicle_summaries[summary.vehicle_order[k]].violation_count

\* estimate = total * days / time_period_days
IsExtrapolated(estimate, total, days) ==
    /\ estimate.kind = total.kind
    /\ estimate.kind = "num" =>
          estimate.num * financial_summary.time_period_days = total.val * days * estimate.den

\* C21: for a non-empty incident list and period_days > 0 the summary has each
\* vehicle's total_loss equal to the sum of total_estimated_loss of that
\* vehicle's incidents, weekly_estimate = total_loss * 7 / period_days and
\* monthly_estimate = total_loss * 30 / period_days, total_fleet_loss equal to
\* the sum of the vehicles' total_loss, total_violations equal to the sum of
\* the vehicles' violation_count, and as worst_offender a vehicle whose
\* total_loss is maximal (no vehicle's total_loss is left unmatched by it).
C21_FinancialSummary ==
    Summarised =>
        LET summary == financial_summary.value
            flagged == DOMAIN summary.vehicle_summaries
        IN /\ \A v \in flagged :
                  /\ summary.vehicle_summaries[v].total_loss
                         = LossOfVehicle(v, Len(consolidated_violations))
                  /\ IsExtrapolated(summary.vehicle_summaries[v].weekly_estimate,
                                    summary.vehicle_summaries[v].total_loss, days_per_week)
                  /\ IsExtrapolated(summary.vehicle_summaries[v].monthly_estimate,
                                    summary.vehicle_summaries[v].total_loss, days_per_month)
           /\ summary.total_fleet_loss = SumOfVehicleLosses(summary, Len(summary.vehicle_order))
           /\ summary.total_violations = SumOfViolationCounts(summary, Len(summary.vehicle_order))
           /\ summary.worst_offender \in flagged
           /\ \A v \in flagged :
                  summary.vehicle_summaries[v].total_loss.kind = "num" =>
                      /\ summary.vehicle_summaries[summary.worst_offender].total_loss.kind = "num"
                      /\ summary.vehicle_summaries[summary.worst_offender].total_loss.val
                             >= summary.vehicle_summaries[v].total_loss.val

-----------------------------------------------------------------------------
(* The relation of two violations (under SpecRelated).                      *)

\* the methods of both violations belong to one common cluster
InCommonCluster(a, b) ==
    \E c \in DOMAIN related_violations :
        /\ a.detection_method \in related_violations[c]
        /\ b.detection_method \in related_violations[c]

\* the timestamps differ by at most 2 hours
WithinTwoHours(a, b) ==
    /\ ~IsNaT(a.timestamp)
    /\ ~IsNaT(b.timestamp)
    /\ a.timestamp - b.timestamp <= Hours(grouping_window_hours)
    /\ b.timestamp - a.timestamp <= Hours(grouping_window_hours)

\* C22: _are_violations_related(v1, v2) is true iff v1 and v2 have the same
\* vehicle_id, their timestamps differ by at most 2 hours (exactly 2 hours
\* counts as related), and either both detection methods belong to one
\* common cluster or both carry an identical non-null location string; the
\* relation is symmetric in its two arguments.
C22_RelatedIff ==
    dd_pc = "compared" =>
        LET v1 == related_pair[1]
            v2 == related_pair[2]
        IN /\ related_result.forward <=>
                  /\ v1.vehicle_id = v2.vehicle_id
                  /\ WithinTwoHours(v1, v2)
                  /\ \/ InCommonCluster(v1, v2)
                     \/ (v1.location # NoLocation /\ v1.location = v2.location)
           /\ related_result.forward = related_result.backward

-----------------------------------------------------------------------------
(* Rapid refills (under SpecRefill: fuel_df holds a purchase and the one    *)
(* before it).                                                              *)

LastPurchase == fuel_df.rows[1]
Purchase == fuel_df.rows[2]

\* the rapid refills among a list of violations
RapidRefills(found) == SelectSeq(found, LAMBDA v : v.detection_method = "obvious_rapid_refill")

\* C23: a flagged rapid refill has base confidence 0.95, reduced to 0.60 if
\* the prior purchase was under 5 gal and within 2 hours, or to 0.80 if the
\* two purchases were at different locations; each of the three values is
\* produced for some pair of purchases of a vehicle with the 40-gal tank.
C23_RapidRefillConfidence ==
    fd_pc = "done" =>
        /\ \A k \in 1..Len(RapidRefills(fuel_result)) :
               RapidRefills(fuel_result)[k].base_confidence =
                   IF /\ LastPurchase.gallons.val < 5
                      /\ Purchase.timestamp - LastPurchase.timestamp < Hours(2)
                   THEN 600
                   ELSE IF Purchase.location # LastPurchase.location THEN 800 ELSE 950
        /\ \A confidence \in {950, 800, 600} :
               \E t \in RefillTables :
                   \E k \in 1..Len(RapidRefills(detect_volume_violations(t.rows))) :
                       RapidRefills(detect_volume_violations(t.rows))[k].base_confidence
                           = confidence

\* the compound conditions of a rapid refill: (a) less than 12h after a fill
\* of at least 90% of capacity, and more than 120% of capacity; (b) both above
\* capacity, less than 8h apart, on the same day; (c) an evening fill at or
\* after 18:00 followed within 16h by a near-full fill at or before 10:00
CompoundConditions(last_purchase, purchase, tank_capacity) ==
    LET ticks_between == purchase.timestamp - last_purchase.timestamp
    IN \/ /\ ticks_between < Hours(12)
          /\ 10 * last_purchase.gallons.val >= 9 * tank_capacity
          /\ 10 * purchase.gallons.val > 12 * tank_capacity
       \/ /\ last_purchase.gallons.val > tank_capacity
          /\ purchase.gallons.val > tank_capacity
          /\ ticks_between < Hours(8)
          /\ DateOf(last_purchase.timestamp) = DateOf(purchase.timestamp)
       \/ /\ TimeOfDay(last_purchase.timestamp) >= Hours(18)
          /\ 10 * last_purchase.gallons.val > 8 * tank_capacity
          /\ ticks_between <= Hours(16)
          /\ TimeOfDay(purchase.timestamp) <= Hours(10)
          /\ 10 * purchase.gallons.val > 9 * tank_capacity

\* C24: for a vehicle's purchase and its immediately preceding purchase an
\* obvious_rapid_refill violation is emitted iff one of the compound
\* conditions holds: (a) the purchase is less than 12h after a fill of at
\* least 90% of capacity and is itself more than 120% of capacity; (b) both
\* purchases exceed capacity, are less than 8h apart and fall on the same day;
\* (c) an evening fill at or after 18:00 is followed within 16h by a near-full
\* morning fill at or before 10:00.
C24_RapidRefillIff ==
    fd_pc = "done" =>
        (Len(RapidRefills(fuel_result)) > 0
            <=> CompoundConditions(LastPurchase, Purchase, default_tank_capacity))

-----------------------------------------------------------------------------
(* Daily excess (under SpecDay).                                            *)

\* the purchases of a vehicle on a calendar day, and the sum of their gallons
PurchasesOn(vehicle_id, date) ==
    SelectSeq(fuel_df.rows, LAMBDA r : /\ r.vehicle_id = vehicle_id
                                       /\ ~IsNaT(r.timestamp)
                                       /\ DateOf(r.timestamp) = date)

GallonsOn(vehicle_id, date) ==
    SumSkipNa([k \in 1..Len(PurchasesOn(vehicle_id, date)) |->
                  PurchasesOn(vehicle_id, date)[k].gallons],
              Len(PurchasesOn(vehicle_id, date)))

\* the daily_excess violations of the result for a vehicle and a day
DailyExcessOn(vehicle_id, date) ==
    {k \in 1..Len(fuel_result) :
        /\ fuel_result[k].detection_method = "daily_excess"
        /\ fuel_result[k].vehicle_id = vehicle_id
        /\ DateOf(fuel_result[k].timestamp) = date}

\* severity high with confidence 0.85, or, the purchases being many (four or
\* more) and small (under half a tank on average), medium with less
HighOrReduced(v, count, total_gallons) ==
    \/ v.severity = "high" /\ v.base_confidence = 850
    \/ /\ v.severity = "medium"
       /\ v.base_confidence < 850
       /\ count >= 4
       /\ 2 * total_gallons < default_tank_capacity * count

\* C25 as stated: whenever the sum of a vehicle's purchases on one calendar
\* day exceeds 2x its tank capacity, exactly one daily_excess violation is
\* emitted for that vehicle and day, with severity high (confidence 0.85) or,
\* when the purchases are many and small, severity medium with reduced
\* confidence; none is emitted when the daily sum is at most 2x capacity.
C25_DailyExcessAsStated ==
    fd_pc = "done" =>
        \A vehicle_id \in Vehicles : \A date \in 0..1 :
            IF GallonsOn(vehicle_id, date) > 2 * default_tank_capacity
            THEN /\ Cardinality(DailyExcessOn(vehicle_id, date)) = 1
                 /\ \A k \in DailyExcessOn(vehicle_id, date) :
                        HighOrReduced(fuel_result[k], Len(PurchasesOn(vehicle_id, date)),
                                      GallonsOn(vehicle_id, date))
            ELSE DailyExcessOn(vehicle_id, date) = {}

\* C25, amended: the same for a vehicle with more than one purchase on the
\* day; a day with a single purchase yields no daily_excess whatever its size.
C25_DailyExcess ==
    fd_pc = "done" =>
        \A vehicle_id \in Vehicles : \A date \in 0..1 :
            IF /\ Len(PurchasesOn(vehicle_id, date)) > 1
               /\ GallonsOn(vehicle_id, date) > 2 * default_tank_capacity
            THEN /\ Cardinality(DailyExcessOn(vehicle_id, date)) = 1
                 /\ \A k \in DailyExcessOn(vehicle_id, date) :
                        HighOrReduced(fuel_result[k], Len(PurchasesOn(vehicle_id, date)),
                                      GallonsOn(vehicle_id, date))
            ELSE DailyExcessOn(vehicle_id, date) = {}

\* a day of two purchases above the limit flagged high, the next day's single
\* purchase of 85 gallons not flagged
C25_Witness ==
    /\ fd_pc = "done"
    /\ Len(PurchasesOn("TRUCK-2", 0)) = 2
    /\ Len(PurchasesOn("TRUCK-2", 1)) = 1
    /\ GallonsOn("TRUCK-2", 1) = 85
    /\ \E k \in DailyExcessOn("TRUCK-2", 0) : fuel_result[k].severity = "high"
    /\ DailyExcessOn("TRUCK-2", 1) = {}

\* eight purchases of 11 gallons flagged medium with confidence 0.60
C25_WitnessManySmall ==
    /\ fd_pc = "done"
    /\ Len(PurchasesOn("TRUCK-2", 0)) = 8
    /\ \E k \in DailyExcessOn("TRUCK-2", 0) :
           fuel_result[k].severity = "medium" /\ fuel_result[k].base_confidence = 600

-----------------------------------------------------------------------------
(* Idle periods (under SpecIdle: a vehicle's pings have distinct times).    *)

\* the timestamps of a vehicle's pings, and of those at or below the speed
PingTimesOf(vehicle_id) ==
    {gps_data.rows[k].timestamp :
        k \in {j \in 1..Len(gps_data.rows) : gps_data.rows[j].vehicle_id = vehicle_id}}

SlowTimesOf(vehicle_id) ==
    {gps_data.rows[k].timestamp :
        k \in {j \in 1..Len(gps_data.rows) :
                 /\ gps_data.rows[j].vehicle_id = vehicle_id
                 /\ gps_data.rows[j].speed_mph <= max_speed_mph}}

\* from a to b the vehicle has only slow pings
SlowThroughout(vehicle_id, a, b) ==
    \A t \in PingTimesOf(vehicle_id) : (a <= t /\ t <= b) => t \in SlowTimesOf(vehicle_id)

\* <<a, b>> is a maximal run of consecutive slow pings: the ping before a and
\* the ping after b, where there is one, are not slow
MaximalRun(vehicle_id, a, b) ==
    /\ a \in SlowTimesOf(vehicle_id)
    /\ b \in SlowTimesOf(vehicle_id)
    /\ a <= b
    /\ SlowThroughout(vehicle_id, a, b)
    /\ \A t \in SlowTimesOf(vehicle_id) : t < a => ~SlowThroughout(vehicle_id, t, a)
    /\ \A t \in SlowTimesOf(vehicle_id) : t > b => ~SlowThroughout(vehicle_id, b, t)

\* the runs that last min_idle_minutes or more
LongRuns(vehicle_id) ==
    {run \in PingTimesOf(vehicle_id) \X PingTimesOf(vehicle_id) :
        /\ MaximalRun(vehicle_id, run[1], run[2])
        /\ (run[2] - run[1]) * MinutesPerHour >= ret.min_idle_minutes * TicksPerHour}

\* the records of the result for a vehicle
IdleRecordsOf(vehicle_id) == {i \in 1..Len(ret.value) : ret.value[i].vehicle_id = vehicle_id}

\* C26: detect_idle_periods partitions each vehicle's time-ordered pings into
\* maximal runs of consecutive pings with speed_mph <= max_speed_mph and emits
\* one idle_abuse record per run whose time span is >= min_idle_minutes and
\* none for shorter runs; the emitted runs of one vehicle never overlap in
\* time and contain no ping with speed above max_speed_mph.
C26_IdleRuns ==
    ret.op = "detect_idle_abuse" =>
        \A vehicle_id \in Vehicles :
            /\ {<<ret.value[i].start_time, ret.value[i].end_time>> : i \in IdleRecordsOf(vehicle_id)}
                   = LongRuns(vehicle_id)
            /\ Cardinality(IdleRecordsOf(vehicle_id)) = Cardinality(LongRuns(vehicle_id))
            /\ \A i \in IdleRecordsOf(vehicle_id) :
                   /\ ret.value[i].violation_type = "idle_abuse"
                   /\ SlowThroughout(vehicle_id, ret.value[i].start_time, ret.value[i].end_time)
                   /\ \A j \in IdleRecordsOf(vehicle_id) \ {i} :
                          \/ ret.value[i].end_time < ret.value[j].start_time
                          \/ ret.value[j].end_time < ret.value[i].start_time

\* of two runs of the truck with a fast ping between them the one of 45
\* minutes or more is reported and the shorter one is not
C26_Witness ==
    /\ ret.op = "detect_idle_abuse"
    /\ ret.min_idle_minutes = 45
    /\ Cardinality(IdleRecordsOf("TRUCK-2")) = 1
    /\ \E a \in SlowTimesOf("TRUCK-2"), b \in SlowTimesOf("TRUCK-2") :
           /\ MaximalRun("TRUCK-2", a, b)
           /\ <<a, b>> \notin LongRuns("TRUCK-2")
    /\ \E t \in PingTimesOf("TRUCK-2") : t \notin SlowTimesOf("TRUCK-2")

\* a run of exactly the minimum is reported
C26_WitnessExactMinimum ==
    /\ ret.op = "detect_idle_abuse"
    /\ \E i \in IdleRecordsOf("TRUCK-2") :
           (ret.value[i].end_time - ret.value[i].start_time) * MinutesPerHour
               = ret.min_idle_minutes * TicksPerHour

-----------------------------------------------------------------------------
(* The loaded tables across an audit.                                       *)

\* C27: detectors are read-only over the input tables: for every combination
\* of run_full_audit flags, enable_fuel_only_analysis=True included, the
\* auditor's gps_data, fuel_data and job_data are unchanged after the call.
C27_TablesUnchanged ==
    [][ret'.op = "run_full_audit"
           => /\ gps_data' = gps_data
              /\ fuel_data' = fuel_data
              /\ job_data' = job_data]_vars

-----------------------------------------------------------------------------
(* The incidents as a partition of the raw violations.                      *)

RECURSIVE EvidenceTotal(_)
EvidenceTotal(k) ==
    IF k = 0 THEN 0 ELSE EvidenceTotal(k - 1) + consolidated_violations[k].evidence_count

\* the first member of an incident in input order
FirstMember(incident) ==
    CHOOSE m \in 1..Len(incident.members) :
        \A q \in 1..Len(incident.members) : incident.members[m].row <= incident.members[q].row

\* every input violation is a member of exactly one incident, once
IsPartition ==
    /\ \A k \in 1..Len(violations) :
           Cardinality({i \in 1..Len(consolidated_violations) :
                           k \in Rows(consolidated_violations[i])}) = 1
    /\ \A i \in 1..Len(consolidated_violations) :
           /\ Rows(consolidated_violations[i]) \subseteq 1..Len(violations)
           /\ Cardinality(Rows(consolidated_violations[i]))
                  = Len(consolidated_violations[i].members)

\* C28: deduplicate_violations partitions its input: every input violation is
\* a member of exactly one returned incident, the evidence_count values sum
\* to the number of input violations, all members of an incident have the
\* same vehicle_id, and every other member is directly related to, hence
\* within 2 hours of, the incident's first member in input order, whose
\* vehicle_id and timestamp the incident carries.
C28_IncidentsPartition ==
    dd_pc = "done" =>
        /\ IsPartition
        /\ EvidenceTotal(Len(consolidated_violations)) = Len(violations)
        /\ \A i \in 1..Len(consolidated_violations) :
               LET incident == consolidated_violations[i]
                   first == violations[incident.members[FirstMember(incident)].row]
               IN /\ incident.vehicle_id = first.vehicle_id
                  /\ incident.timestamp = first.timestamp
                  /\ \A m \in 1..Len(incident.members) :
                         LET member == violations[incident.members[m].row]
                         IN /\ member.vehicle_id = first.vehicle_id
                            /\ m # FirstMember(incident) =>
                                   /\ are_violations_related(first, member)
                                   /\ WithinTwoHours(first, member)

-----------------------------------------------------------------------------
(* The stored state of an auditor over loads and audits.                    *)

\* the sources whose table is loaded and has rows
SourcesWithRows ==
    {s \in Sources :
        /\ DataOf(s, gps_data, fuel_data, job_data).loaded
        /\ Len(DataOf(s, gps_data, fuel_data, job_data).rows) > 0}

TimesOfSource(s) ==
    {DataOf(s, gps_data, fuel_data, job_data).rows[k].timestamp :
        k \in 1..Len(DataOf(s, gps_data, fuel_data, job_data).rows)}

\* date_ranges has the first and last time and the row count of every table
\* that has rows, and nothing else
RangesOfLoadedTables ==
    /\ DOMAIN date_ranges = SourcesWithRows
    /\ \A s \in DOMAIN date_ranges :
           /\ date_ranges[s].count = Len(DataOf(s, gps_data, fuel_data, job_data).rows)
           /\ date_ranges[s].start \in TimesOfSource(s)
           /\ date_ranges[s].end \in TimesOfSource(s)
           /\ \A t \in TimesOfSource(s) : date_ranges[s].start <= t /\ t <= date_ranges[s].end

\* the pairs of sources that both have rows
PairsWithRows ==
    {SourcePairs[k] : k \in {j \in 1..Len(SourcePairs) :
                               /\ SourcePairs[j][1] \in SourcesWithRows
                               /\ SourcePairs[j][2] \in SourcesWithRows}}

\* the recorded instants of two sources that lie in the period of both: two
\* periods with an instant in common have the later of their starts in common
CommonPeriod(p) ==
    {t \in TimesOfSource(p[1]) \cup TimesOfSource(p[2]) :
        \A s \in {p[1], p[2]} : \E a \in TimesOfSource(s), b \in TimesOfSource(s) : a <= t /\ t <= b}

\* overlap_analysis has an entry for every pair of tables with rows, a period
\* for the pairs that overlap, a no_overlap warning for the pairs that do not,
\* and no warning about anything else
OverlapsOfLoadedTables ==
    /\ DOMAIN overlap_analysis.has_overlaps = PairsWithRows
    /\ \A p \in PairsWithRows : overlap_analysis.has_overlaps[p] = (CommonPeriod(p) # {})
    /\ DOMAIN overlap_analysis.overlap_periods = {p \in PairsWithRows : CommonPeriod(p) # {}}
    /\ \A p \in DOMAIN overlap_analysis.overlap_periods :
           /\ overlap_analysis.overlap_periods[p].start \in CommonPeriod(p)
           /\ overlap_analysis.overlap_periods[p].end \in CommonPeriod(p)
           /\ \A t \in CommonPeriod(p) :
                  /\ overlap_analysis.overlap_periods[p].start <= t
                  /\ t <= overlap_analysis.overlap_periods[p].end
    /\ \A k \in 1..Len(overlap_analysis.warnings) :
           /\ overlap_analysis.warnings[k].sources \in PairsWithRows
           /\ (overlap_analysis.warnings[k].type = "no_overlap")
                  = (CommonPeriod(overlap_analysis.warnings[k].sources) = {})
    /\ \A p \in PairsWithRows :
           CommonPeriod(p) = {} =>
               \E k \in 1..Len(overlap_analysis.warnings) : overlap_analysis.warnings[k].sources = p

\* C29: after any sequence of load_data and run_full_audit calls date_ranges
\* and overlap_analysis describe exactly the tables of the most recent
\* load_data call; load_data resets the stored violations to empty, a
\* successful run_full_audit sets them to the consolidated incidents it
\* returns, and a run_full_audit that raises the configuration error leaves
\* all stored state unchanged.
C29_StoredState ==
    [][/\ RangesOfLoadedTables'
       /\ OverlapsOfLoadedTables'
       /\ ret'.op = "load_data" => self_violations' = <<>>
       /\ (ret'.op = "run_full_audit" /\ ret'.raised = "")
              => /\ self_violations' = ret'.consolidated_violations
                 /\ UNCHANGED <<gps_data, fuel_data, job_data, date_ranges, overlap_analysis>>
       /\ (ret'.op = "run_full_audit" /\ ret'.raised = "ValueError")
              => UNCHANGED <<gps_data, fuel_data, job_data, date_ranges, overlap_analysis,
                             self_violations>>]_vars

\* a load that follows an audit with incidents: the fuel table is gone, and
\* with it its date range, its overlaps and the stored incidents
C29_Witness ==
    /\ ret.op = "load_data"
    /\ Len(last_audit.consolidated_violations) > 0
    /\ self_violations = <<>>
    /\ ~fuel_data.loaded
    /\ DOMAIN date_ranges = {"gps"}
    /\ overlap_analysis.warnings = <<>>

\* an audit of an auditor that was loaded without a table
C29_WitnessRaised ==
    /\ ret.op = "run_full_audit"
    /\ ret.raised = "ValueError"
    /\ au_pc = "loaded"

-----------------------------------------------------------------------------
(* Pattern deviations and the length of a vehicle's history.                *)

\* the pattern_deviation violations of a vehicle in the result
PatternDeviationsOf(vehicle_id) ==
    {i \in 1..Len(fuel_result) :
        /\ fuel_result[i].vehicle_id = vehicle_id
        /\ fuel_result[i].detection_method = "pattern_deviation"}

\* C30: because the z-score baseline includes the purchase being tested,
\* _detect_pattern_violations never emits a pattern_deviation violation for a
\* vehicle with 10 or fewer purchase records, whatever their amounts.
C30_NoPatternDeviationUpToTen ==
    fd_pc = "done" =>
        \A vehicle_id \in Vehicles :
            Len(RowsOfVehicle(fuel_df.rows, vehicle_id)) <= 10
                => PatternDeviationsOf(vehicle_id) = {}

\* ten purchases, nine of 30 gal and one of 200 gal: the detector reports the
\* last purchase for its volume and not for its deviation from the pattern
C30_Witness ==
    /\ fd_pc = "done"
    /\ Len(fuel_df.rows) = 10
    /\ \A k \in 1..9 : fuel_df.rows[k].gallons = Num(30)
    /\ fuel_df.rows[10].gallons = Num(200)
    /\ \E i \in 1..Len(fuel_result) :
           /\ fuel_result[i].timestamp = fuel_df.rows[10].timestamp
           /\ fuel_result[i].detection_method = "volume_excess"
    /\ PatternDeviationsOf("TRUCK-2") = {}
====
